---- MODULE Spec2Model ----
(***************************************************************************)
(* Encrypted vector database: the HTTP server's collection registry and    *)
(* request handlers (EVDServer.cpp), the PIR read path (PIRServer.cpp,     *)
(* HEval.cpp, Client.cpp) and the coordinator (EVDClient.cpp).             *)
(*                                                                         *)
(* Ciphertexts are modelled by the plaintext polynomial they decrypt to    *)
(* (the decryption contract A*s + B = m); key switching and                *)
(* relinearisation keep that plaintext, encryption noise is left out.      *)
(* The ring is scaled down: degree 2^LOG_DEGREE, modulus MOD_Q = 17.       *)
(***************************************************************************)
EXTENDS Integers, Sequences, FiniteSets, TLC

----------------------------------------------------------------------------
(* Scale of the model *)

\* worker threads running io_context_.run() (request handlers in flight)
NumThreads == 2
\* distinct collection hashes that requests carry
NumHashes == 2
\* log2 of the ring degree (12 in Const.hpp; 2 here)
LOG_DEGREE == 2
\* log2 of the PIR grid side (10 in EVDServer.cpp; 1 here)
PIR_LOG_RANK == 1
\* largest num_to_insert of an insert request
MaxBatch == 2
\* cap on payloads_.size() under the concurrent specification
MaxStored == 2
\* cap on payloads_.size() under the sequential specifications
MaxStoredSeq == 6
\* cap on db_sizes_ under the coordinator's specification (at most the PIR
\* capacity PIR_RANK^2)
MaxStoredCli == 4
\* largest K of a top-K call
MaxK == 3

\* ciphertext modulus: stands for the 54-bit prime of Const.hpp, the
\* smallest prime that is 1 modulo 2*DEGREE for DEGREE in {4, 8}
MOD_Q == 17
\* special modulus: stands for the 55-bit prime of Const.hpp, the next
\* prime that is 1 modulo 2*DEGREE for DEGREE in {4, 8}
MOD_P == 97
\* OpenMP threads: 64 in Const.hpp; 2 here, so that DEGREE / N_THREAD > 1
N_THREAD == 2

NULL == 0
IP == 0
L2 == 1
COSINE == 2

DEGREE == 2 ^ LOG_DEGREE
PIR_RANK == 2 ^ PIR_LOG_RANK
PIR_PAYLOAD_SIZE == DEGREE \div 4

Threads == 1..NumThreads
Hashes == 1..NumHashes
\* a live CollectionData is owned by the registry or by a handler's local
\* shared_ptr, so NumHashes + NumThreads objects can be alive at once
ObjIds == 1..(NumHashes + NumThreads)

----------------------------------------------------------------------------
(* Arithmetic helpers *)

RECURSIVE PowMod(_, _, _)
\* intel::hexl::PowMod: square and multiply
PowMod(b, e, m) ==
  IF e = 0 THEN 1 % m
  ELSE IF e % 2 = 0 THEN PowMod((b * b) % m, e \div 2, m)
  ELSE (b * PowMod((b * b) % m, e \div 2, m)) % m

RECURSIVE SumTo(_, _)
\* sum of f[1..n]
SumTo(f, n) ==
  IF n = 0 THEN 0 ELSE f[n] + SumTo(f, n - 1)

RECURSIVE ReverseBits(_, _)
\* intel::hexl::ReverseBits: the low `log` bits of x in reverse order
ReverseBits(x, log) ==
  IF log = 0 THEN 0
  ELSE (x % 2) * 2 ^ (log - 1) + ReverseBits(x \div 2, log - 1)

getBitRev(op, logmod) == ReverseBits(op, logmod)

\* minimal primitive 2n-th root of unity modulo q (n a power of two)
MinimalPrimitiveRoot(n, q) ==
  CHOOSE r \in 1..(q - 1) :
    /\ PowMod(r, n, q) = q - 1
    /\ \A s \in 1..(q - 1) : PowMod(s, n, q) = q - 1 => r <= s

----------------------------------------------------------------------------
(* Polynomial: (mod_, is_ntt_, data_); data_[i + 1] is coefficient i *)

Polynomial(degree, mod) ==
  [mod_ |-> mod, is_ntt_ |-> FALSE, data_ |-> [i \in 1..degree |-> 0]]

setIsNTT(p, b) == [p EXCEPT !.is_ntt_ = b]

\* HEval::ntt: forward negacyclic NTT, evaluation at the odd powers of the
\* minimal primitive 2n-th root (HEXL stores them bit-reversed; every use
\* below is coefficient-wise, so the order of the slots is immaterial)
NttData(d, q) ==
  LET n == Len(d)
      psi == MinimalPrimitiveRoot(n, q)
  IN [k \in 1..n |->
        SumTo([i \in 1..n |-> d[i] * PowMod(psi, (2 * (k - 1) + 1) * (i - 1), q)], n) % q]

\* HEval::intt: the inverse transform
InttData(d, q) ==
  LET n == Len(d)
      psi == MinimalPrimitiveRoot(n, q)
      ipsi == PowMod(psi, 2 * n - 1, q)
      ninv == PowMod(n, q - 2, q)
  IN [i \in 1..n |->
        (ninv * SumTo([k \in 1..n |-> d[k] * PowMod(ipsi, (2 * (k - 1) + 1) * (i - 1), q)], n)) % q]

ntt(op) == [op EXCEPT !.is_ntt_ = TRUE, !.data_ = NttData(op.data_, op.mod_)]

intt(op) == [op EXCEPT !.is_ntt_ = FALSE, !.data_ = InttData(op.data_, op.mod_)]

----------------------------------------------------------------------------
(* HEval on polynomials (operands are assumed to pass the NTT-state and    *)
(* modulus checks of each routine)                                         *)

Neg(c, q) == IF c = 0 THEN 0 ELSE q - c

\* HEval::add(Polynomial)
add(op1, op2) ==
  [op1 EXCEPT !.data_ = [i \in 1..Len(op1.data_) |-> (op1.data_[i] + op2.data_[i]) % op1.mod_]]

\* HEval::sub(Polynomial)
sub(op1, op2) ==
  [op1 EXCEPT !.data_ =
     [i \in 1..Len(op1.data_) |-> (op1.data_[i] + op1.mod_ - op2.data_[i]) % op1.mod_]]

\* HEval::mult(Polynomial, Polynomial): coefficient-wise, both in NTT form
mult(op1, op2) ==
  [op1 EXCEPT !.is_ntt_ = TRUE,
              !.data_ = [i \in 1..Len(op1.data_) |-> (op1.data_[i] * op2.data_[i]) % op1.mod_]]

\* HEval::mult(Polynomial, u64)
multScalar(op1, op2) ==
  [op1 EXCEPT !.data_ = [i \in 1..Len(op1.data_) |-> (op1.data_[i] * op2) % op1.mod_]]

\* HEval::shift: res[idx*stack + j] = +-op[i*stack + j], idx = (exponent + i) & (2*rank - 1)
shift(op, exponent, rank) ==
  LET n == Len(op.data_)
      stack == n \div rank
  IN [op EXCEPT !.is_ntt_ = FALSE, !.data_ =
        [p \in 1..n |->
           LET t == (p - 1) \div stack
               j == (p - 1) % stack
               i == CHOOSE x \in 0..(rank - 1) : ((exponent + x) % (2 * rank)) % rank = t
               idx == (exponent + i) % (2 * rank)
           IN IF idx < rank THEN op.data_[i * stack + j + 1]
              ELSE Neg(op.data_[i * stack + j + 1], op.mod_)]]

\* HEval::aut: res[idx*stack + j] = +-op[i*stack + j], idx = (i * exponent) & (2*rank - 1)
\* (exponent odd, so every slot of res is written once)
aut(op, exponent, rank) ==
  LET n == Len(op.data_)
      stack == n \div rank
  IN [op EXCEPT !.is_ntt_ = FALSE, !.data_ =
        [p \in 1..n |->
           LET t == (p - 1) \div stack
               j == (p - 1) % stack
               i == CHOOSE x \in 0..(rank - 1) : ((x * exponent) % (2 * rank)) % rank = t
               idx == (i * exponent) % (2 * rank)
           IN IF idx < rank THEN op.data_[i * stack + j + 1]
              ELSE Neg(op.data_[i * stack + j + 1], op.mod_)]]

----------------------------------------------------------------------------
(* PIRServer, on the plaintext images of the ciphertexts.  Vectors of      *)
(* ciphertexts are functions on 0..rank-1.                                 *)

\* PIRServer::decompose: res[i] = aut(keyswitch_i(op), step*i + 1)
decompose(op, logRank) ==
  LET rank == 2 ^ logRank
      step == (2 * DEGREE) \div rank
  IN [i \in 0..(rank - 1) |-> aut(op, step * i + 1, DEGREE)]

\* one stage of PIRServer::invButterfly
ButterflyStage(op, logRank, i) ==
  LET rank == 2 ^ logRank
      half == 2 ^ i
      size == 2 * half
      start == rank \div size
      step == DEGREE \div half
  IN [p \in 0..(rank - 1) |->
        IF p % size < half
          THEN add(op[p], op[p + half])
          ELSE LET idx == p - half
                   k == idx % size
                   factor == start + step * k
               IN shift(sub(op[idx], op[idx + half]), 2 * DEGREE - factor, DEGREE)]

RECURSIVE ButterflyStages(_, _, _)
\* stages i, i-1, ..., 0
ButterflyStages(op, logRank, i) ==
  IF i < 0 THEN op
  ELSE ButterflyStages(ButterflyStage(op, logRank, i), logRank, i - 1)

\* PIRServer::invButterfly
invButterfly(op, logRank) ==
  LET staged == ButterflyStages(op, logRank, logRank - 1)
  IN [i \in 0..(2 ^ logRank - 1) |-> ntt(staged[i])]

RECURSIVE MultSum(_, _, _)
\* sum over j < n of a[j] * b[j], coefficient-wise in NTT form
MultSum(a, b, n) ==
  IF n = 1 THEN mult(a[0], b[0])
  ELSE add(MultSum(a, b, n - 1), mult(a[n - 1], b[n - 1]))


\* GridCell with the two coordinates exchanged
GridCellTransposed(i, j, rank) ==
  j + rank * i

\* the cell of the grid that PIRServer::pir multiplies with decomposed
\* query slot j when it builds firstDim[i]
GridCell(i, j, rank) ==
  i + rank * j

\* PIRServer::pir
pir(queryFirstDim, querySecondDim, db, logRank) ==
  LET rank == 2 ^ logRank
      dq1 == invButterfly(decompose(queryFirstDim, logRank), logRank)
      firstDim == [i \in 0..(rank - 1) |->
                     MultSum([j \in 0..(rank - 1) |-> dq1[getBitRev(j, logRank)]],
                             [j \in 0..(rank - 1) |-> db[GridCell(i, j, rank)]], rank)]
      dq2 == invButterfly(decompose(querySecondDim, logRank), logRank)
  IN \* bitRevedMultithreadMultSum, then relin
     MultSum([j \in 0..(rank - 1) |-> dq2[getBitRev(j, logRank)]], firstDim, rank)

----------------------------------------------------------------------------
(* Client: PIR encoding *)

\* log2 of PIR_FIRST_SCALE and PIR_SECOND_SCALE (25.25 in EVDClient.hpp),
\* scaled so that scale^2 * {-2..1} fits the centred range of MOD_Q
PIR_FIRST_SCALE == 1
PIR_SECOND_SCALE == 1

\* Client::invRank_
invRank(logRank) == PowMod(2 ^ logRank, MOD_Q - 2, MOD_Q)

\* Client::encryptPIR: the one-hot plaintext scale * X^idx / rank
encryptPIR(idx, scale, logRank) ==
  multScalar([Polynomial(DEGREE, MOD_Q) EXCEPT !.data_[idx + 1] = scale], invRank(logRank))

\* the two-bit digit bit_pair of a byte
TwoBits(byte, bit_pair) == (byte \div (4 ^ bit_pair)) % 4

\* Client::encodePIRPayload: 2 bits per coefficient as {0, 1, -1, -2}, then NTT
encodePIRPayload(payload) ==
  ntt([Polynomial(DEGREE, MOD_Q) EXCEPT !.data_ =
         [c \in 1..DEGREE |->
            LET two_bits == TwoBits(payload[((c - 1) \div 4) + 1], (c - 1) % 4)
            IN IF two_bits > 1 THEN MOD_Q - two_bits + 1 ELSE two_bits]])

\* Client::decode of one coefficient followed by std::round: the centred
\* lift divided by scale, rounded to the nearest integer
DecodeRound(c, scale) ==
  LET lifted == IF c < MOD_Q \div 2 THEN c ELSE 0 - (MOD_Q - c)
  IN IF lifted >= 0 THEN (2 * lifted + scale) \div (2 * scale)
     ELSE 0 - ((2 * (0 - lifted) + scale) \div (2 * scale))

\* Client::decrypt: back to coefficient form, then decode
decrypt(ctxt, scale) ==
  LET temp == IF ctxt.is_ntt_ THEN intt(ctxt) ELSE ctxt
  IN [i \in 1..Len(temp.data_) |-> DecodeRound(temp.data_[i], scale)]

\* the switch of Client::decodePIRPayload; 4 stands for the default branch
DecodeDigit(rounded) ==
  CASE rounded = 0 -> 0
    [] rounded = 1 -> 1
    [] rounded = 0 - 1 -> 2
    [] rounded = 0 - 2 -> 3
    [] OTHER -> 4

\* Client::decodePIRPayload; <<>> when it throws "Invalid rounded value"
decodePIRPayload(dmsg) ==
  IF \E c \in 1..DEGREE : DecodeDigit(dmsg[c]) = 4 THEN <<>>
  ELSE [b \in 1..PIR_PAYLOAD_SIZE |->
          DecodeDigit(dmsg[4 * (b - 1) + 1]) + 4 * DecodeDigit(dmsg[4 * (b - 1) + 2])
          + 16 * DecodeDigit(dmsg[4 * (b - 1) + 3]) + 64 * DecodeDigit(dmsg[4 * (b - 1) + 4])]

----------------------------------------------------------------------------
(* Server state *)

VARIABLES
  collections_,        \* EVDServer::collections_: hash -> CollectionData id, NULL when absent
  collections_mutex_,  \* holder of EVDServer::collections_mutex_, NULL when free
  objs,                \* the CollectionData objects, by id
  mtx,                 \* holder of each CollectionData::mtx, NULL when free
  th,                  \* per worker thread: the request in flight and the handler's locals
  crashed,             \* the process was killed by an out-of-bounds write
  grid_oob,            \* some write went past the end of pir_encoded_payloads_
  cli,                 \* the coordinator (EVDClient) and its history
  frame                \* the call frame of a library routine run on its own

srvVars == <<collections_, collections_mutex_, objs, mtx, th, crashed, grid_oob>>

vars == <<collections_, collections_mutex_, objs, mtx, th, crashed, grid_oob, cli, frame>>

ZeroGrid ==
  [i \in 0..(PIR_RANK * PIR_RANK - 1) |-> setIsNTT(Polynomial(DEGREE, MOD_Q), TRUE)]

\* a slot of the object table that holds no CollectionData
FreeObj ==
  [live |-> FALSE, dimension |-> 0, metric_type |-> IP, keys |-> 0, db_size |-> 0,
   payloads_ |-> <<>>, pir_encoded_payloads_ |-> <<>>, partial_block_keys_ |-> <<>>,
   full_block_caches_ |-> <<>>, partial_block_cache_ |-> <<>>, accepted |-> <<>>]

\* CollectionData's constructor; partial_block_cache_ is <<>> for nullptr
\* and <<cache>> when it owns a CachedKeys.  `accepted` is a history field:
\* the payload blocks of the inserts answered 200, in the order of the
\* global indices db_size + i that handleInsert gave them
CollectionData(d, mt, keyBlob) ==
  [live |-> TRUE, dimension |-> d, metric_type |-> mt, keys |-> keyBlob, db_size |-> 0,
   payloads_ |-> <<>>, pir_encoded_payloads_ |-> ZeroGrid, partial_block_keys_ |-> <<>>,
   full_block_caches_ |-> <<>>, partial_block_cache_ |-> <<>>, accepted |-> <<>>]

NoReq == [op |-> "none", short |-> FALSE, keep_alive |-> TRUE]

NoResp == [http |-> 0, msg |-> "", body |-> <<>>, close |-> FALSE]

IdleThread ==
  [pc |-> "idle", req |-> NoReq, ctx |-> NULL, new_collection |-> NULL, i |-> 0,
   resp |-> NoResp]

\* makeBinaryResponse
makeBinaryResponse(body) == [http |-> 200, msg |-> "", body |-> body, close |-> FALSE]

\* makeTextResponse
makeTextResponse(status, message) ==
  [http |-> status, msg |-> message, body |-> <<>>, close |-> FALSE]

\* Session::dispatchRequest's catch block: an exception that leaves
\* processRequest becomes the generic 500 and closes the connection
InternalError ==
  [http |-> 500, msg |-> "Internal server error", body |-> <<>>, close |-> TRUE]

\* shared_ptr ownership: an object lives while the registry or a handler holds it
Referenced(id, reg, thr) ==
  \/ \E h \in Hashes : reg[h] = id
  \/ \E t \in Threads : thr[t].ctx = id \/ thr[t].new_collection = id

Sweep(o, reg, thr) ==
  [id \in ObjIds |-> IF Referenced(id, reg, thr) THEN o[id] ELSE FreeObj]

NewId ==
  CHOOSE id \in ObjIds : ~objs[id].live /\ \A j \in ObjIds : j < id => objs[j].live

\* the handler returns: its locals (and the locks they guard) are released
\* and the response waits to be written
Returned(t, resp) ==
  [th EXCEPT ![t] = [pc |-> "done", req |-> @.req, ctx |-> NULL, new_collection |-> NULL,
                     i |-> 0, resp |-> resp]]

\* the same for a request that is answered as soon as it is read
Answered(t, req, resp) ==
  [th EXCEPT ![t] = [pc |-> "done", req |-> req, ctx |-> NULL, new_collection |-> NULL,
                     i |-> 0, resp |-> resp]]

Unlocked(t) == [id \in ObjIds |-> IF mtx[id] = t THEN NULL ELSE mtx[id]]

ServerInit ==
  /\ collections_ = [h \in Hashes |-> NULL]
  /\ collections_mutex_ = NULL
  /\ objs = [id \in ObjIds |-> FreeObj]
  /\ mtx = [id \in ObjIds |-> NULL]
  /\ th = [t \in Threads |-> IdleThread]
  /\ crashed = FALSE
  /\ grid_oob = FALSE

----------------------------------------------------------------------------
(* Requests, as the handlers' BinaryReader sees them.  `short` says the    *)
(* body ends inside the fixed header; `cut` names the field of the body in *)
(* which it ends, "none" when the body is complete.                        *)

SetupReq(h, d, m, hk, k) ==
  [op |-> "setup", short |-> FALSE, keep_alive |-> TRUE, hash |-> h, dimension |-> d, metric |-> m,
   has_keys |-> hk, keys |-> k]

\* items[k] = [key, payload]; cut = k > 0 when the body ends inside item k
InsertReq(h, n, its, c) ==
  [op |-> "insert", short |-> FALSE, keep_alive |-> TRUE, hash |-> h, num |-> n, items |-> its, cut |-> c]

QueryReq(o, h, q, c) ==
  [op |-> o, short |-> FALSE, keep_alive |-> TRUE, hash |-> h, query |-> q, cut |-> c]

RetrieveReq(h, n, idx) ==
  [op |-> "retrieve", short |-> FALSE, keep_alive |-> TRUE, hash |-> h, num |-> n, indices |-> idx]

PirReq(h, q1, q2, c) ==
  [op |-> "pir_retrieve", short |-> FALSE, keep_alive |-> TRUE, hash |-> h, firstDim |-> q1,
   secondDim |-> q2, cut |-> c]

DropReq(h) == [op |-> "drop", short |-> FALSE, keep_alive |-> TRUE, hash |-> h]

ShortReq(o) == [op |-> o, short |-> TRUE, keep_alive |-> TRUE]

\* the same request on a connection that asks not to be kept alive
\* (Connection: close, or HTTP/1.0)
Once(req) == [req EXCEPT !.keep_alive = FALSE]

----------------------------------------------------------------------------
(* Server: caches and scores *)

\* Server::cacheKeys: the cache of a block, by the keys it was built from
\* (each key by the value its MLWE ciphertext encrypts)
cacheKeys(keys) == [cached |-> keys]

\* handleInsert's padded_block: resize(DEGREE, MLWECiphertext(rank)); an
\* all-zero ciphertext decrypts to 0
PaddedBlock(keys) ==
  [k \in 1..DEGREE |-> IF k <= Len(keys) THEN keys[k] ELSE 0]

\* Server::innerProduct: one RLWE ciphertext, by the DEGREE scores it decrypts to
innerProduct(query, cache) ==
  [k \in 1..DEGREE |-> query * cache.cached[k]]

\* CachedKeys(rank): the ciphertexts as Ciphertext() leaves them, all zero
\* and not in NTT form, until cacheKeys has filled them
CachedKeys == [cached |-> <<>>]

\* multithreadMultSum's test of its cached-key operand: getIsNTT() of the
\* first ciphertext, which modPack sets at the end of cacheKeys
CacheIsNTT(cache) ==
  cache.cached # <<>>

\* handleRetrieve's empty_payload
EmptyPayload == [b \in 1..PIR_PAYLOAD_SIZE |-> 0]

----------------------------------------------------------------------------
(* Session and EVDServer::processRequest *)

Malformed(o) ==
  CASE o = "setup" -> "Malformed setup request"
    [] o = "insert" -> "Malformed insert request"
    [] o \in {"query", "query_ptxt"} -> "Malformed query request"
    [] o = "retrieve" -> "Malformed retrieve request"
    [] o = "pir_retrieve" -> "Malformed PIR retrieve request"
    [] OTHER -> "Invalid collection hash"

\* Session::finalizeRequest, dispatchRequest and the head of the handler
\* that processRequest selects: the fixed header is parsed
Receive(t, req) ==
  /\ ~crashed
  /\ th[t].pc = "idle"
  /\ th' =
       CASE req.op \in {"setup", "insert", "query", "query_ptxt", "retrieve", "pir_retrieve"} ->
              IF req.short
                THEN Answered(t, req, makeTextResponse(400, Malformed(req.op)))
                ELSE [th EXCEPT ![t].pc = "find_lock", ![t].req = req]
         [] req.op = "drop" ->
              IF req.short
                THEN Answered(t, req, makeTextResponse(400, Malformed(req.op)))
                ELSE [th EXCEPT ![t].pc = "drop_lock", ![t].req = req]
         [] req.op = "terminate" ->
              Answered(t, req, [makeTextResponse(200, "terminated") EXCEPT !.close = TRUE])
         [] req.op = "unknown" ->
              Answered(t, req, makeTextResponse(404, "Unknown endpoint"))
         [] OTHER -> Answered(t, req, makeTextResponse(405, "Unsupported HTTP method"))
  /\ UNCHANGED <<collections_, collections_mutex_, objs, mtx, crashed, grid_oob, frame>>

\* Session::writeResponse and onWrite: the response is written and the
\* session reads the next request (or, after should_close, a new
\* connection takes the worker).  Closes is onWrite's test
\* should_close_ || !response_->keep_alive(); the response's keep_alive is
\* the request's (makeBinaryResponse, makeTextResponse)
Closes(t) ==
  th[t].resp.close \/ ~th[t].req.keep_alive

Reply(t) ==
  /\ ~crashed
  /\ th[t].pc = "done"
  /\ th' = [th EXCEPT ![t] = IdleThread]
  /\ UNCHANGED <<collections_, collections_mutex_, objs, mtx, crashed, grid_oob, frame>>

----------------------------------------------------------------------------
(* EVDServer::findCollection and handleSetup *)

\* std::lock_guard lock(collections_mutex_) in findCollection
FindLock(t) ==
  /\ ~crashed
  /\ th[t].pc = "find_lock"
  /\ collections_mutex_ = NULL
  /\ collections_mutex_' = t
  /\ th' = [th EXCEPT ![t].pc = "find"]
  /\ UNCHANGED <<collections_, objs, mtx, crashed, grid_oob, cli, frame>>

\* the body of the setup response
SetupBody(status, dimension, metric_type, db_size) ==
  <<status, dimension, metric_type, db_size>>


\* SetupRefusal without the has_keys test: a first-phase request goes on to
\* the key parsing
SetupRefusalNoPhase1(req) ==
  IF req.dimension = 0 \/ req.dimension > DEGREE THEN "Invalid dimension value"
  ELSE IF req.keys = 0 /\ req.has_keys = 1 THEN "Malformed relin key payload"
  ELSE ""

\* handleSetup when findCollection returned nullptr, up to the construction
\* of new_collection: what it answers without registering, "" when it goes on
SetupRefusal(req) ==
  IF req.has_keys = 0 THEN "phase1"
  ELSE IF req.dimension = 0 \/ req.dimension > DEGREE THEN "Invalid dimension value"
  ELSE IF req.keys = 0 THEN "Malformed relin key payload"
  ELSE ""

\* collections_.find under the lock, the unlock at the end of
\* findCollection, and the handler's code up to its next lock
FindCollection(t) ==
  /\ ~crashed
  /\ th[t].pc = "find"
  /\ collections_mutex_ = t
  /\ collections_mutex_' = NULL
  /\ LET req == th[t].req
         found == collections_[req.hash]
     IN IF found # NULL
          THEN /\ th' = [th EXCEPT ![t].ctx = found, ![t].pc = "lock"]
               /\ objs' = objs
          ELSE IF req.op # "setup"
            THEN \* getCollectionOrThrow throws std::runtime_error
                 /\ th' = Returned(t, InternalError)
                 /\ objs' = objs
          ELSE IF SetupRefusal(req) = "phase1"
            THEN /\ th' = Returned(t, makeBinaryResponse(
                              SetupBody(1, req.dimension, req.metric, 0)))
                 /\ objs' = objs
          ELSE IF SetupRefusal(req) # ""
            THEN /\ th' = Returned(t, makeTextResponse(400, SetupRefusal(req)))
                 /\ objs' = objs
          ELSE \* std::make_shared<CollectionData>(...)
               /\ th' = [th EXCEPT ![t].new_collection = NewId, ![t].pc = "reg_lock"]
               /\ objs' = [objs EXCEPT ![NewId] =
                             CollectionData(req.dimension, req.metric, req.keys)]
  /\ UNCHANGED <<collections_, mtx, crashed, grid_oob, cli, frame>>


\* LockCollection without the wait: the handler goes on whether or not the
\* collection's lock is free
LockCollectionNoWait(t, cap) ==
  /\ ~crashed
  /\ th[t].pc = "lock"
  /\ th[t].req.op = "insert" =>
       Len(objs[th[t].ctx].payloads_) + th[t].req.num <= cap
  /\ mtx' = [mtx EXCEPT ![th[t].ctx] = t]
  /\ th' = [th EXCEPT ![t].pc = th[t].req.op, ![t].i = 0]
  /\ UNCHANGED <<collections_, collections_mutex_, objs, crashed, grid_oob, cli, frame>>

\* std::lock_guard lock(ctx->mtx); `cap` bounds the model: an insert that
\* would store more than cap payloads is not started
LockCollection(t, cap) ==
  /\ ~crashed
  /\ th[t].pc = "lock"
  /\ mtx[th[t].ctx] = NULL
  /\ th[t].req.op = "insert" =>
       Len(objs[th[t].ctx].payloads_) + th[t].req.num <= cap
  /\ mtx' = [mtx EXCEPT ![th[t].ctx] = t]
  /\ th' = [th EXCEPT ![t].pc = th[t].req.op, ![t].i = 0]
  /\ UNCHANGED <<collections_, collections_mutex_, objs, crashed, grid_oob, cli, frame>>


\* SetupExisting that takes a matching setup for a new start: the
\* collection is constructed again from the request
SetupExistingReset(t) ==
  /\ ~crashed
  /\ th[t].pc = "setup"
  /\ LET req == th[t].req
         existing_ctx == objs[th[t].ctx]
         status == IF existing_ctx.dimension # req.dimension THEN 2 ELSE 0
         thr == Returned(t, makeBinaryResponse(
                  SetupBody(status, existing_ctx.dimension, existing_ctx.metric_type,
                            existing_ctx.db_size)))
     IN /\ th' = thr
        /\ mtx' = Unlocked(t)
        /\ objs' = Sweep([objs EXCEPT ![th[t].ctx] =
                            IF status = 0
                              THEN CollectionData(req.dimension, req.metric, req.keys)
                              ELSE @],
                         collections_, thr)
  /\ UNCHANGED <<collections_, collections_mutex_, crashed, grid_oob, cli, frame>>

\* SetupExisting that adopts the dimension of the request on a mismatch
SetupExistingAdopt(t) ==
  /\ ~crashed
  /\ th[t].pc = "setup"
  /\ LET req == th[t].req
         existing_ctx == objs[th[t].ctx]
         status == IF existing_ctx.dimension # req.dimension THEN 2 ELSE 0
         thr == Returned(t, makeBinaryResponse(
                  SetupBody(status, existing_ctx.dimension, existing_ctx.metric_type,
                            existing_ctx.db_size)))
     IN /\ th' = thr
        /\ mtx' = Unlocked(t)
        /\ objs' = Sweep([objs EXCEPT ![th[t].ctx].dimension = req.dimension],
                         collections_, thr)
  /\ UNCHANGED <<collections_, collections_mutex_, crashed, grid_oob, cli, frame>>

\* handleSetup on an existing collection, under its lock
SetupExisting(t) ==
  /\ ~crashed
  /\ th[t].pc = "setup"
  /\ LET req == th[t].req
         existing_ctx == objs[th[t].ctx]
         status == IF existing_ctx.dimension # req.dimension THEN 2 ELSE 0
         thr == Returned(t, makeBinaryResponse(
                  SetupBody(status, existing_ctx.dimension, existing_ctx.metric_type,
                            existing_ctx.db_size)))
     IN /\ th' = thr
        /\ mtx' = Unlocked(t)
        /\ objs' = Sweep(objs, collections_, thr)
  /\ UNCHANGED <<collections_, collections_mutex_, crashed, grid_oob, cli, frame>>

\* std::lock_guard lock(collections_mutex_) before the registration
RegisterLock(t) ==
  /\ ~crashed
  /\ th[t].pc = "reg_lock"
  /\ collections_mutex_ = NULL
  /\ collections_mutex_' = t
  /\ th' = [th EXCEPT ![t].pc = "register"]
  /\ UNCHANGED <<collections_, objs, mtx, crashed, grid_oob, cli, frame>>

\* Register that keeps the registry lock after the map is written
RegisterHoldingLock(t) ==
  /\ ~crashed
  /\ th[t].pc = "register"
  /\ collections_mutex_ = t
  /\ LET req == th[t].req
         reg == [collections_ EXCEPT ![req.hash] = th[t].new_collection]
         thr == Returned(t, makeBinaryResponse(
                  SetupBody(0, req.dimension, req.metric, 0)))
     IN /\ collections_' = reg
        /\ th' = thr
        /\ objs' = Sweep(objs, reg, thr)
  /\ UNCHANGED <<collections_mutex_, mtx, crashed, grid_oob, cli, frame>>

\* collections_[collectionHash] = new_collection, and the confirmation
Register(t) ==
  /\ ~crashed
  /\ th[t].pc = "register"
  /\ collections_mutex_ = t
  /\ LET req == th[t].req
         reg == [collections_ EXCEPT ![req.hash] = th[t].new_collection]
         thr == Returned(t, makeBinaryResponse(
                  SetupBody(0, req.dimension, req.metric, 0)))
     IN /\ collections_' = reg
        /\ th' = thr
        /\ objs' = Sweep(objs, reg, thr)
  /\ collections_mutex_' = NULL
  /\ UNCHANGED <<mtx, crashed, grid_oob, cli, frame>>

----------------------------------------------------------------------------
(* DELETE /collections/{hash} *)

DropLock(t) ==
  /\ ~crashed
  /\ th[t].pc = "drop_lock"
  /\ collections_mutex_ = NULL
  /\ collections_mutex_' = t
  /\ th' = [th EXCEPT ![t].pc = "drop"]
  /\ UNCHANGED <<collections_, objs, mtx, crashed, grid_oob, cli, frame>>


\* DropErase that answers "dropped" and erases nothing
DropEraseNothing(t) ==
  /\ ~crashed
  /\ th[t].pc = "drop"
  /\ collections_mutex_ = t
  /\ th' = Returned(t, makeTextResponse(200, "dropped"))
  /\ collections_mutex_' = NULL
  /\ UNCHANGED <<collections_, objs, mtx, crashed, grid_oob, cli, frame>>

\* DropErase that clears the whole registry
DropEraseAll(t) ==
  /\ ~crashed
  /\ th[t].pc = "drop"
  /\ collections_mutex_ = t
  /\ LET reg == [h \in Hashes |-> NULL]
         thr == Returned(t, makeTextResponse(200, "dropped"))
     IN /\ collections_' = reg
        /\ th' = thr
        /\ objs' = Sweep(objs, reg, thr)
  /\ collections_mutex_' = NULL
  /\ UNCHANGED <<mtx, crashed, grid_oob, cli, frame>>

\* collections_.erase(it) when the hash is found; "dropped" either way
DropErase(t) ==
  /\ ~crashed
  /\ th[t].pc = "drop"
  /\ collections_mutex_ = t
  /\ LET reg == [collections_ EXCEPT ![th[t].req.hash] = NULL]
         thr == Returned(t, makeTextResponse(200, "dropped"))
     IN /\ collections_' = reg
        /\ th' = thr
        /\ objs' = Sweep(objs, reg, thr)
  /\ collections_mutex_' = NULL
  /\ UNCHANGED <<mtx, crashed, grid_oob, cli, frame>>

----------------------------------------------------------------------------
(* EVDServer::handleInsert *)

\* one round of the loop over the items, under ctx->mtx.  A write to
\* pir_encoded_payloads_[db_size + i] past the end of the vector is
\* undefined: the process dies (die) or goes on with the heap damaged
InsertItem(t) ==
  /\ ~crashed
  /\ th[t].pc = "insert"
  /\ th[t].i < th[t].req.num
  /\ LET req == th[t].req
         id == th[t].ctx
         ctx == objs[id]
         i == th[t].i
         item == req.items[i + 1]
         cell == ctx.db_size + i
         keys == Append(ctx.partial_block_keys_, item.key)
         full == Len(keys) = DEGREE
     IN IF req.cut = i + 1
          THEN \* readBytes fails: return without undoing the earlier rounds
               /\ th' = Returned(t, makeTextResponse(400, "Malformed payload data"))
               /\ mtx' = Unlocked(t)
               /\ objs' = Sweep(objs, collections_,
                                Returned(t, makeTextResponse(400, "Malformed payload data")))
               /\ UNCHANGED <<crashed, grid_oob>>
          ELSE /\ objs' = [objs EXCEPT ![id] =
                    [ctx EXCEPT
                       !.payloads_ = Append(@, item.payload),
                       !.pir_encoded_payloads_ =
                          IF cell < PIR_RANK * PIR_RANK
                            THEN [@ EXCEPT ![cell] = encodePIRPayload(item.payload)]
                            ELSE @,
                       !.partial_block_keys_ = IF full THEN <<>> ELSE keys,
                       !.full_block_caches_ = IF full THEN Append(@, cacheKeys(keys)) ELSE @,
                       !.partial_block_cache_ = IF full THEN <<>> ELSE @]]
               /\ th' = [th EXCEPT ![t].i = i + 1]
               /\ mtx' = mtx
               /\ IF cell < PIR_RANK * PIR_RANK
                    THEN UNCHANGED <<crashed, grid_oob>>
                    ELSE /\ grid_oob' = TRUE
                         /\ \E die \in BOOLEAN : crashed' = die
  /\ UNCHANGED <<collections_, collections_mutex_, cli, frame>>

\* after the loop: the partial block is cached, db_size grows, 200
InsertFinish(t) ==
  /\ ~crashed
  /\ th[t].pc = "insert"
  /\ th[t].i = th[t].req.num
  /\ LET req == th[t].req
         id == th[t].ctx
         ctx == objs[id]
         thr == Returned(t, makeBinaryResponse(<<>>))
         done == [ctx EXCEPT
                    !.partial_block_cache_ =
                       IF ctx.partial_block_keys_ # <<>>
                         THEN <<cacheKeys(PaddedBlock(ctx.partial_block_keys_))>>
                         ELSE @,
                    !.db_size = @ + req.num,
                    !.accepted = @ \o [k \in 1..req.num |-> req.items[k].payload]]
     IN /\ th' = thr
        /\ objs' = Sweep([objs EXCEPT ![id] = done], collections_, thr)
  /\ mtx' = Unlocked(t)
  /\ UNCHANGED <<collections_, collections_mutex_, crashed, grid_oob, cli, frame>>

----------------------------------------------------------------------------
(* EVDServer::handleQuery, handleRetrieve and handlePirRetrieve *)

\* the ciphertexts of a query response: one per full block cache, then
\* one for the partial block cache when there is one
QueryBody(ctx, query) ==
  [k \in 1..Len(ctx.full_block_caches_) |-> innerProduct(query, ctx.full_block_caches_[k])]
  \o [k \in 1..Len(ctx.partial_block_cache_) |-> innerProduct(query, ctx.partial_block_cache_[k])]

\* handleQuery under ctx->mtx (encrypted and plaintext queries alike)
Query(t) ==
  /\ ~crashed
  /\ th[t].pc \in {"query", "query_ptxt"}
  /\ LET req == th[t].req
         ctx == objs[th[t].ctx]
         caches == ctx.full_block_caches_ \o ctx.partial_block_cache_
         resp == IF ctx.db_size = 0 THEN makeTextResponse(400, "Collection is empty")
                 ELSE IF req.cut # 0
                   THEN makeTextResponse(400, IF req.op = "query"
                                                THEN "Malformed query payload (A)"
                                                ELSE "Malformed plaintext query payload")
                 ELSE IF \E k \in 1..Len(caches) : ~CacheIsNTT(caches[k])
                   THEN \* InvalidNTTStateException out of multithreadMultSum
                        InternalError
                 ELSE makeBinaryResponse(QueryBody(ctx, req.query))
     IN /\ th' = Returned(t, resp)
        /\ objs' = Sweep(objs, collections_, Returned(t, resp))
  /\ mtx' = Unlocked(t)
  /\ UNCHANGED <<collections_, collections_mutex_, crashed, grid_oob, cli, frame>>

\* the block handleRetrieve appends for one index
RetrievedBlock(ctx, index) ==
  IF index < ctx.db_size THEN ctx.payloads_[index + 1] ELSE EmptyPayload

\* handleRetrieve under ctx->mtx; the body is the sequence of the blocks
Retrieve(t) ==
  /\ ~crashed
  /\ th[t].pc = "retrieve"
  /\ LET req == th[t].req
         ctx == objs[th[t].ctx]
         resp == IF Len(req.indices) < req.num
                   THEN makeTextResponse(400, "Malformed retrieve index")
                   ELSE makeBinaryResponse(
                          [k \in 1..req.num |-> RetrievedBlock(ctx, req.indices[k])])
     IN /\ th' = Returned(t, resp)
        /\ objs' = Sweep(objs, collections_, Returned(t, resp))
  /\ mtx' = Unlocked(t)
  /\ UNCHANGED <<collections_, collections_mutex_, crashed, grid_oob, cli, frame>>

\* handlePirRetrieve under ctx->mtx; its two throws reach dispatchRequest
PirRetrieve(t) ==
  /\ ~crashed
  /\ th[t].pc = "pir_retrieve"
  /\ LET req == th[t].req
         ctx == objs[th[t].ctx]
         resp == IF ctx.db_size = 0 \/ ctx.db_size > PIR_RANK * PIR_RANK
                   THEN InternalError
                 ELSE IF req.cut # 0
                   THEN makeTextResponse(400, "Malformed PIR query payload")
                 ELSE makeBinaryResponse(
                        <<pir(req.firstDim, req.secondDim, ctx.pir_encoded_payloads_,
                              PIR_LOG_RANK)>>)
     IN /\ th' = Returned(t, resp)
        /\ objs' = Sweep(objs, collections_, Returned(t, resp))
  /\ mtx' = Unlocked(t)
  /\ UNCHANGED <<collections_, collections_mutex_, crashed, grid_oob, cli, frame>>

----------------------------------------------------------------------------
(* EVDClient: the payload envelope *)

RECURSIVE XorBits(_, _, _)
\* bitwise exclusive or of the low n bits
XorBits(a, b, n) ==
  IF n = 0 THEN 0 ELSE ((a + b) % 2) + 2 * XorBits(a \div 2, b \div 2, n - 1)

\* byte `pos` of the AES-256-CTR keystream under aesKey_ for the IV that
\* generateIvFromIndex derives from index: a fixed byte per (index, pos),
\* different for different indices
Keystream(index, pos) == (151 * (index + 1) + 57 * pos) % 256

\* encryptPayload: the plaintext padded with zeros to PIR_PAYLOAD_SIZE,
\* XORed with the keystream
encryptPayload(plaintext, index) ==
  [b \in 1..PIR_PAYLOAD_SIZE |->
     XorBits(IF b <= Len(plaintext) THEN plaintext[b] ELSE 0, Keystream(index, b), 8)]

\* plaintext.find('\0') and resize
TrimAtNul(s) ==
  IF \E k \in 1..Len(s) : s[k] = 0
    THEN SubSeq(s, 1, (CHOOSE k \in 1..Len(s) : s[k] = 0 /\ \A j \in 1..(k - 1) : s[j] # 0) - 1)
    ELSE s

\* decryptPayload
decryptPayload(ciphertext, index) ==
  TrimAtNul([b \in 1..PIR_PAYLOAD_SIZE |-> XorBits(ciphertext[b], Keystream(index, b), 8)])

----------------------------------------------------------------------------
(* EVDClient: one coordinator, whose connection is served by worker 1 *)

\* the collection names the application uses
Names == {"docs"}

\* std::hash<std::string> on the names in use
StdHash(name) == IF name = "docs" THEN 1 ELSE 2

\* the worker that serves the coordinator's connection
CliThread == CHOOSE t \in Threads : \A u \in Threads : t <= u

\* db_sizes_ has no entry for the name
NoSize == 0 - 1

NoContext == [present |-> FALSE, dimension |-> 0, metric_type |-> IP]

\* std::make_unique<CollectionContext>(dimension, metric_type, ...)
CollectionContext(d, mt) == [present |-> TRUE, dimension |-> d, metric_type |-> mt]

NoCall == [op |-> "none", name |-> "", dimension |-> 0, metric |-> IP, items |-> <<>>,
           index |-> 0]

NoRet == [kind |-> "none", size |-> 0, text |-> <<>>]

\* no library routine is running on its own
NoFrame == [routine |-> "none", pc |-> "none"]

\* collections_ and db_sizes_ are the client's maps; call, ret and pc are
\* the call in progress and the outcome of the last one; stored and
\* emptied are history: the plaintext payloads of the inserts that returned
\* since the name was last dropped, and whether a drop discarded any; ivs
\* is history too: the indices that generateIvFromIndex has turned into an
\* IV under aesKey_
ClientInit ==
  cli = [pc |-> "ready", call |-> NoCall, ret |-> NoRet,
         collections_ |-> [n \in Names |-> NoContext],
         db_sizes_ |-> [n \in Names |-> NoSize],
         stored |-> [n \in Names |-> <<>>],
         emptied |-> [n \in Names |-> FALSE],
         ivs |-> {}]

\* the call throws before or after the exchange
Throws(c, call) == [c EXCEPT !.pc = "ready", !.call = call,
                             !.ret = [kind |-> "throw", size |-> 0, text |-> <<>>]]

ReturnsSize(c, n) == [c EXCEPT !.pc = "ready",
                               !.ret = [kind |-> "value", size |-> n, text |-> <<>>]]

ReturnsText(c, s) == [c EXCEPT !.pc = "ready",
                               !.ret = [kind |-> "value", size |-> 0, text |-> s]]

SetupCall(name, d, m) == [NoCall EXCEPT !.op = "setup", !.name = name, !.dimension = d,
                                        !.metric = m]

\* setupCollection up to the first performPost (has_keys = 0)
setupCollectionPhase1(name, d, m) ==
  /\ cli.pc = "ready"
  /\ th[CliThread].pc = "idle"
  /\ IF d = 0 \/ d > DEGREE
       THEN /\ cli' = Throws(cli, SetupCall(name, d, m))
            /\ UNCHANGED <<srvVars, frame>>
       ELSE /\ Receive(CliThread, SetupReq(StdHash(name), d, m, 0, 0))
            /\ cli' = [cli EXCEPT !.pc = "setup1", !.call = SetupCall(name, d, m),
                                  !.ret = NoRet]

\* the first response: status 2 throws, status 0 adopts the server's
\* record, status 1 creates the context and generates the keys
setupCollectionStatus ==
  /\ cli.pc = "setup1"
  /\ th[CliThread].pc = "done"
  /\ Reply(CliThread)
  /\ LET resp == th[CliThread].resp
         name == cli.call.name
     IN IF resp.http # 200 \/ Len(resp.body) < 4 THEN cli' = Throws(cli, cli.call)
        ELSE IF resp.body[1] = 2 THEN cli' = Throws(cli, cli.call)
        ELSE IF resp.body[1] = 0
          THEN cli' = ReturnsSize(
                 [cli EXCEPT !.collections_[name] =
                               IF @.present THEN @
                               ELSE CollectionContext(resp.body[2], resp.body[3]),
                             !.db_sizes_[name] = resp.body[4]],
                 resp.body[4])
        ELSE IF resp.body[1] # 1 THEN cli' = Throws(cli, cli.call)
        ELSE cli' = [cli EXCEPT !.pc = "setup2",
                                !.collections_[name] =
                                  IF @.present THEN @
                                  ELSE CollectionContext(cli.call.dimension, cli.call.metric),
                                !.db_sizes_[name] =
                                  IF cli.collections_[name].present THEN @ ELSE 0]

\* the second performPost: has_keys = 1 and the serialized keys
setupCollectionPhase2 ==
  /\ cli.pc = "setup2"
  /\ th[CliThread].pc = "idle"
  /\ Receive(CliThread, SetupReq(StdHash(cli.call.name), cli.call.dimension,
                                 cli.call.metric, 1, 1))
  /\ cli' = [cli EXCEPT !.pc = "setup2w"]

\* the confirmation
setupCollectionConfirm ==
  /\ cli.pc = "setup2w"
  /\ th[CliThread].pc = "done"
  /\ Reply(CliThread)
  /\ LET resp == th[CliThread].resp
     IN IF resp.http # 200 \/ Len(resp.body) < 4 THEN cli' = Throws(cli, cli.call)
        ELSE IF resp.body[1] # 0 THEN cli' = Throws(cli, cli.call)
        ELSE cli' = ReturnsSize([cli EXCEPT !.db_sizes_[cli.call.name] = resp.body[4]],
                                resp.body[4])

\* dropCollection: performDelete
dropCollectionSend(name) ==
  /\ cli.pc = "ready"
  /\ th[CliThread].pc = "idle"
  /\ Receive(CliThread, DropReq(StdHash(name)))
  /\ cli' = [cli EXCEPT !.pc = "drop", !.call = [NoCall EXCEPT !.op = "drop", !.name = name],
                        !.ret = NoRet]

\* dropCollection after performDelete: the client's entries are erased
dropCollectionDone ==
  /\ cli.pc = "drop"
  /\ th[CliThread].pc = "done"
  /\ Reply(CliThread)
  /\ LET resp == th[CliThread].resp
         name == cli.call.name
     IN IF resp.http # 200 THEN cli' = Throws(cli, cli.call)
        ELSE cli' = ReturnsSize(
               [cli EXCEPT !.collections_[name] = NoContext,
                           !.db_sizes_[name] = NoSize,
                           !.emptied[name] = @ \/ cli.stored[name] # <<>>,
                           !.stored[name] = <<>>], 0)

\* insert up to performPost: item i is encrypted under global index
\* db_sizes_[name] + i.  vectors[k] stands for the MLWE encryption of
\* vector k, payloads[k] is its plaintext payload
insertSend(name, vectors, payloads) ==
  /\ cli.pc = "ready"
  /\ th[CliThread].pc = "idle"
  /\ LET call == [NoCall EXCEPT !.op = "insert", !.name = name, !.items = payloads]
         current_db_size == cli.db_sizes_[name]
         n == Len(vectors)
     IN IF Len(vectors) # Len(payloads) \/ ~cli.collections_[name].present
             \/ \E k \in 1..n : Len(payloads[k]) > PIR_PAYLOAD_SIZE
          THEN /\ cli' = Throws(cli, call)
               /\ UNCHANGED <<srvVars, frame>>
          ELSE /\ Receive(CliThread,
                    InsertReq(StdHash(name), n,
                              [k \in 1..n |->
                                 [key |-> vectors[k],
                                  payload |-> encryptPayload(payloads[k],
                                                             current_db_size + (k - 1))]],
                              0))
               /\ cli' = [cli EXCEPT !.pc = "insert", !.call = call, !.ret = NoRet,
                                      !.ivs = @ \cup {current_db_size + (k - 1) : k \in 1..n}]

\* insertDone that leaves db_sizes_ as it was
insertDoneForgets ==
  /\ cli.pc = "insert"
  /\ th[CliThread].pc = "done"
  /\ Reply(CliThread)
  /\ LET resp == th[CliThread].resp
         name == cli.call.name
     IN IF resp.http # 200 THEN cli' = Throws(cli, cli.call)
        ELSE cli' = ReturnsSize([cli EXCEPT !.stored[name] = @ \o cli.call.items], 0)

\* insert after performPost: db_sizes_ grows
insertDone ==
  /\ cli.pc = "insert"
  /\ th[CliThread].pc = "done"
  /\ Reply(CliThread)
  /\ LET resp == th[CliThread].resp
         name == cli.call.name
     IN IF resp.http # 200 THEN cli' = Throws(cli, cli.call)
        ELSE cli' = ReturnsSize(
               [cli EXCEPT !.db_sizes_[name] = @ + Len(cli.call.items),
                           !.stored[name] = @ \o cli.call.items], 0)

\* retrieve up to performPost: the index is sent as given
retrieveSend(name, index) ==
  /\ cli.pc = "ready"
  /\ th[CliThread].pc = "idle"
  /\ LET call == [NoCall EXCEPT !.op = "retrieve", !.name = name, !.index = index]
     IN IF ~cli.collections_[name].present
          THEN /\ cli' = Throws(cli, call)
               /\ UNCHANGED <<srvVars, frame>>
          ELSE /\ Receive(CliThread, RetrieveReq(StdHash(name), 1, <<index>>))
               /\ cli' = [cli EXCEPT !.pc = "retrieve", !.call = call, !.ret = NoRet]

\* retrieve after performPost: the block is decrypted under the index
retrieveDone ==
  /\ cli.pc = "retrieve"
  /\ th[CliThread].pc = "done"
  /\ Reply(CliThread)
  /\ LET resp == th[CliThread].resp
     IN IF resp.http # 200 \/ Len(resp.body) # 1 THEN cli' = Throws(cli, cli.call)
        ELSE cli' = ReturnsText(cli, decryptPayload(resp.body[1], cli.call.index))

\* retrievePIR up to performPost
retrievePIRSend(name, index) ==
  /\ cli.pc = "ready"
  /\ th[CliThread].pc = "idle"
  /\ LET call == [NoCall EXCEPT !.op = "retrievePIR", !.name = name, !.index = index]
         db_size == cli.db_sizes_[name]
         row == index \div PIR_RANK
         col == index % PIR_RANK
     IN IF ~cli.collections_[name].present \/ index >= db_size
             \/ db_size > PIR_RANK * PIR_RANK
          THEN /\ cli' = Throws(cli, call)
               /\ UNCHANGED <<srvVars, frame>>
          ELSE /\ Receive(CliThread,
                    PirReq(StdHash(name),
                           encryptPIR(row, 2 ^ PIR_FIRST_SCALE, PIR_LOG_RANK),
                           encryptPIR(col, 2 ^ PIR_SECOND_SCALE, PIR_LOG_RANK), 0))
               /\ cli' = [cli EXCEPT !.pc = "retrievePIR", !.call = call, !.ret = NoRet]

\* retrievePIR after performPost: decrypt at the double scale, decode the
\* two-bit digits, decrypt the block under the index
retrievePIRDone ==
  /\ cli.pc = "retrievePIR"
  /\ th[CliThread].pc = "done"
  /\ Reply(CliThread)
  /\ LET resp == th[CliThread].resp
         doubleScale == 2 ^ (PIR_FIRST_SCALE + PIR_SECOND_SCALE)
         aes_payload == decodePIRPayload(decrypt(resp.body[1], doubleScale))
     IN IF resp.http # 200 \/ Len(resp.body) # 1 THEN cli' = Throws(cli, cli.call)
        ELSE IF aes_payload = <<>> THEN cli' = Throws(cli, cli.call)
        ELSE cli' = ReturnsText(cli, decryptPayload(aes_payload, cli.call.index))

----------------------------------------------------------------------------
(* Requests that arrive on the wire *)

\* a payload block (AES-CTR ciphertext) of PIR_PAYLOAD_SIZE bytes
Block(byte) == [b \in 1..PIR_PAYLOAD_SIZE |-> byte]

\* the items of an insert request of n items: keys and blocks that differ
\* from item to item and from batch size to batch size
BatchOf(n) == [k \in 1..n |-> [key |-> n + k - 1, payload |-> Block((89 * (n + k)) % 256)]]

\* a dimension below DEGREE and DEGREE itself
Dimensions == {DEGREE \div 2, DEGREE}

\* the collection of the sequential specification: the first hash
SeqHash == CHOOSE h \in Hashes : \A g \in Hashes : h <= g

\* requests of the concurrent specification: the key upload of a setup, a
\* first-phase setup of another dimension, an insert of MaxBatch items,
\* queries and drops on every collection, the two retrieves on one
RawRequests ==
  {SetupReq(h, DEGREE \div 2, IP, 1, 1) : h \in Hashes}
  \cup {SetupReq(h, DEGREE, IP, 0, 0) : h \in Hashes}
  \cup {InsertReq(h, MaxBatch, BatchOf(MaxBatch), 0) : h \in Hashes}
  \cup {QueryReq("query", h, 1, 0) : h \in Hashes}
  \cup {DropReq(h) : h \in Hashes}
  \cup {RetrieveReq(SeqHash, 1, <<0>>)}
  \cup {PirReq(SeqHash, encryptPIR(0, 2 ^ PIR_FIRST_SCALE, PIR_LOG_RANK),
               encryptPIR(0, 2 ^ PIR_SECOND_SCALE, PIR_LOG_RANK), 0)}

\* requests of the sequential specification: one collection, every shape
\* of request
SeqRequests ==
  {SetupReq(SeqHash, d, m, hk, k) : d \in Dimensions \cup {0, DEGREE + 1}, m \in {IP, COSINE},
                                    hk \in {0, 1}, k \in {0, 1}}
  \cup {InsertReq(SeqHash, n, BatchOf(n), c) : n \in 1..MaxBatch, c \in 0..MaxBatch}
  \cup {QueryReq(o, SeqHash, q, c) : o \in {"query", "query_ptxt"}, q \in {1, 2}, c \in {0, 1}}
  \cup {RetrieveReq(SeqHash, 1, <<i>>) : i \in 0..MaxStoredSeq}
  \cup {RetrieveReq(SeqHash, 2, idx) : idx \in {<<0>>, <<1, 0>>}}
  \cup {PirReq(SeqHash, encryptPIR(0, 2 ^ PIR_FIRST_SCALE, PIR_LOG_RANK),
               encryptPIR(1, 2 ^ PIR_SECOND_SCALE, PIR_LOG_RANK), c) : c \in {0, 1}}
  \cup {DropReq(SeqHash)}
  \cup {ShortReq(o) : o \in {"setup", "insert", "query", "retrieve", "pir_retrieve", "drop"}}
  \cup {[op |-> o, short |-> FALSE, keep_alive |-> TRUE] : o \in {"terminate", "unknown", "other"}}
  \cup {Once(ShortReq(o)) : o \in {"insert", "query"}}

----------------------------------------------------------------------------
(* Specifications *)

Init == ServerInit /\ ClientInit /\ frame = NoFrame

\* a request that comes from some other client than the coordinator
RawReceive(t, req) == Receive(t, req) /\ UNCHANGED cli

\* and the response written back to it
RawReply(t) == Reply(t) /\ UNCHANGED cli

\* a worker's steps after it has read a request
Serve(t, cap) ==
  \/ FindLock(t)
  \/ FindCollection(t)
  \/ LockCollection(t, cap)
  \/ SetupExisting(t)
  \/ RegisterLock(t)
  \/ Register(t)
  \/ InsertItem(t)
  \/ InsertFinish(t)
  \/ Query(t)
  \/ Retrieve(t)
  \/ PirRetrieve(t)
  \/ DropLock(t)
  \/ DropErase(t)
  \/ RawReply(t)

\* the server under concurrent connections
Next ==
  \E t \in Threads :
    \/ \E req \in RawRequests : RawReceive(t, req)
    \/ Serve(t, MaxStored)

Spec == Init /\ [][Next]_vars

\* the server under one connection
SeqNext ==
  \/ \E req \in SeqRequests : RawReceive(CliThread, req)
  \/ Serve(CliThread, MaxStoredSeq)

SeqSpec == Init /\ [][SeqNext]_vars

\* the payloads and vectors that the application hands to the coordinator
ClientPayloads == {<<104>>, <<105>>}

ClientBatches ==
  UNION {[1..n -> ClientPayloads] : n \in 1..MaxBatch}

\* the coordinator's calls and the worker that serves them
ClientNext ==
  \/ \E name \in Names, d \in Dimensions \cup {0} : setupCollectionPhase1(name, d, IP)
  \/ setupCollectionStatus
  \/ setupCollectionPhase2
  \/ setupCollectionConfirm
  \/ \E name \in Names : dropCollectionSend(name)
  \/ dropCollectionDone
  \/ \E name \in Names, payloads \in ClientBatches :
       /\ cli.db_sizes_[name] + Len(payloads) <= MaxStoredCli
       /\ insertSend(name, [k \in 1..Len(payloads) |-> k], payloads)
  \/ insertDone
  \/ \E name \in Names, index \in 0..MaxStoredCli : retrieveSend(name, index)
  \/ retrieveDone
  \/ \E name \in Names, index \in 0..MaxStoredCli : retrievePIRSend(name, index)
  \/ retrievePIRDone
  \/ FindLock(CliThread)
  \/ FindCollection(CliThread)
  \/ LockCollection(CliThread, MaxStoredCli)
  \/ SetupExisting(CliThread)
  \/ RegisterLock(CliThread)
  \/ Register(CliThread)
  \/ InsertItem(CliThread)
  \/ InsertFinish(CliThread)
  \/ Retrieve(CliThread)
  \/ PirRetrieve(CliThread)
  \/ DropLock(CliThread)
  \/ DropErase(CliThread)

ClientSpec == Init /\ [][ClientNext]_vars

----------------------------------------------------------------------------
(* Top-K selection: EVDClient::query's filter, queryAndTopK,               *)
(* queryAndTopKWithScores, getTopKIndices and Client::topKScore, run on    *)
(* decrypted scores.  A score is an integer; a position at or past the     *)
(* database size holds the score of a zero-padded key, PadScore.           *)

PadScore == 0
ScoreValues == {0 - 1, 1}
\* enough positions for a full block and a partial block
ScoreLen == DEGREE + 1

\* iter = (db_size + DEGREE - 1) / DEGREE
Iter(db_size) == (db_size + DEGREE - 1) \div DEGREE

\* dmsg after decryptScore: Iter(db_size) messages of DEGREE scores;
\* dmsg[j + 1][k + 1] is the score of global index j * DEGREE + k
Dmsg(scores, db_size) ==
  [j \in 1..Iter(db_size) |->
     [k \in 1..DEGREE |->
        LET g == (j - 1) * DEGREE + (k - 1)
        IN IF g < db_size THEN scores[g + 1] ELSE PadScore]]

\* the score at a global index
ScoreAt(dmsg, g) == dmsg[(g \div DEGREE) + 1][(g % DEGREE) + 1]

\* mutant of Kept: no position is discarded
KeptPadded(global_idx, db_size) == TRUE

\* the coordinator's test on a global index: j * DEGREE + k < db_size in
\* query, the negation of `global_idx >= db_size` in the top-K loops
Kept(global_idx, db_size) ==
  global_idx < db_size

TopKRoutines == {"query", "queryAndTopK", "queryAndTopKWithScores", "getTopKIndices",
                 "topKScore"}

\* the positions a routine scans: topKScore and getTopKIndices scan every
\* entry they are given, the coordinator's loops every entry of dmsg
ScanLen(routine, db_size) ==
  IF routine = "getTopKIndices" THEN db_size ELSE Iter(db_size) * DEGREE

\* the frame at the point where the scores are decrypted.  min_heap is the
\* set of (score, index) pairs in the priority queue; slots are the pairs
\* its storage has held; res is the caller's TopK (zero-initialised) or
\* the vector the routine returns; written are the positions of res the
\* routine has assigned; i counts the extraction loop
TopKFrame(routine, scores, db_size, k) ==
  [routine |-> routine, pc |-> "decrypted",
   dmsg |-> IF routine = "getTopKIndices"
            THEN <<[g \in 1..db_size |-> scores[g]]>>
            ELSE Dmsg(scores, db_size),
   db_size |-> db_size, k |-> k, pos |-> 0,
   min_heap |-> {}, slots |-> {},
   res |-> IF routine \in {"queryAndTopK", "topKScore"} THEN [n \in 1..k |-> 0] ELSE <<>>,
   written |-> {}, scr |-> <<>>, i |-> 0]

TopKFrames ==
  {TopKFrame(r, s, n, k) : r \in TopKRoutines, s \in [1..ScoreLen -> ScoreValues],
                           n \in 0..ScoreLen, k \in 0..MaxK}

TopKInit == ServerInit /\ ClientInit /\ frame \in TopKFrames

\* the score a scan reads at position g
Offered(f, g) ==
  IF f.routine = "getTopKIndices" THEN f.dmsg[1][g + 1] ELSE ScoreAt(f.dmsg, g)

\* the pairs that std::priority_queue::top() may return: Compare orders on
\* the score alone, so any pair of the least score can be at the top
Tops(heap) == {t \in heap : \A u \in heap : t[1] <= u[1]}

Reverse(q) == [n \in 1..Len(q) |-> q[Len(q) + 1 - n]]

libVars == <<collections_, collections_mutex_, objs, mtx, th, crashed, grid_oob, cli>>

\* the returns before any score is read: query throws on an empty database,
\* the top-K calls return on an empty database or K = 0
TopKEarlyReturn ==
  /\ frame.pc = "decrypted"
  /\ \/ /\ frame.routine = "query" /\ frame.db_size = 0
        /\ frame' = [frame EXCEPT !.pc = "thrown"]
     \/ /\ frame.routine \in {"queryAndTopK", "queryAndTopKWithScores", "getTopKIndices"}
        /\ frame.db_size = 0 \/ frame.k = 0
        /\ frame' = [frame EXCEPT !.pc = "returned"]
  /\ UNCHANGED libVars

\* EVDClient::query: the loop that fills results
queryResults ==
  /\ frame.pc = "decrypted"
  /\ frame.routine = "query" /\ frame.db_size > 0
  /\ LET kept == {g \in 0..(Iter(frame.db_size) * DEGREE - 1) : Kept(g, frame.db_size)}
         nth(n) == CHOOSE g \in kept : Cardinality({h \in kept : h < g}) = n - 1
     IN frame' = [frame EXCEPT !.pc = "returned",
                               !.written = 1..Cardinality(kept),
                               !.res = [n \in 1..Cardinality(kept) |-> nth(n)],
                               !.scr = [n \in 1..Cardinality(kept) |-> ScoreAt(frame.dmsg, nth(n))]]
  /\ UNCHANGED libVars

\* the heap routines start their scan; getTopKIndices caps k at scores.size()
TopKEnter ==
  /\ frame.pc = "decrypted"
  /\ frame.routine \in TopKRoutines \ {"query"}
  /\ frame.routine = "topKScore" \/ (frame.db_size > 0 /\ frame.k > 0)
  /\ frame' = [frame EXCEPT !.pc = "scan",
                            !.k = IF frame.routine = "getTopKIndices" /\ frame.db_size < @
                                  THEN frame.db_size ELSE @]
  /\ UNCHANGED libVars

\* one iteration of the scan: the coordinator's loops leave a position at
\* or past db_size alone; otherwise the pair is pushed while the heap holds
\* fewer than k pairs, or replaces the top when the top's score is less
HeapScan ==
  /\ frame.pc = "scan"
  /\ frame.pos < ScanLen(frame.routine, frame.db_size)
  /\ LET g == frame.pos
         pair == <<Offered(frame, g), g>>
         skip == /\ frame.routine \in {"queryAndTopK", "queryAndTopKWithScores"}
                 /\ ~Kept(g, frame.db_size)
     IN IF skip
        THEN frame' = [frame EXCEPT !.pos = g + 1]
        ELSE IF Cardinality(frame.min_heap) < frame.k
        THEN frame' = [frame EXCEPT !.pos = g + 1,
                                    !.min_heap = @ \cup {pair},
                                    !.slots = @ \cup {pair}]
        ELSE \E t \in Tops(frame.min_heap) :
               IF t[1] < pair[1]
               THEN frame' = [frame EXCEPT !.pos = g + 1,
                                           !.min_heap = (@ \ {t}) \cup {pair},
                                           !.slots = @ \cup {pair}]
               ELSE frame' = [frame EXCEPT !.pos = g + 1]
  /\ UNCHANGED libVars

\* the scan is over
HeapScanEnd ==
  /\ frame.pc = "scan"
  /\ frame.pos = ScanLen(frame.routine, frame.db_size)
  /\ frame' = [frame EXCEPT !.pc = "drain"]
  /\ UNCHANGED libVars

\* queryAndTopK and topKScore: for (i = 0; i < res.size(); ++i)
\* res[res.size() - 1 - i] = min_heap.top().second; min_heap.pop().  On an
\* empty heap top() and pop() are undefined: a hardened library aborts,
\* otherwise top() reads a slot of the heap's storage, which holds a pair
\* that was pushed earlier (no storage at all: a null read, which faults)
HeapDrainFixed ==
  /\ frame.pc = "drain"
  /\ frame.routine \in {"queryAndTopK", "topKScore"}
  /\ frame.i < frame.k
  /\ IF frame.min_heap # {}
     THEN \E t \in Tops(frame.min_heap) :
            frame' = [frame EXCEPT !.res[frame.k - frame.i] = t[2],
                                   !.written = @ \cup {frame.k - frame.i},
                                   !.min_heap = @ \ {t},
                                   !.i = @ + 1]
     ELSE \/ frame' = [frame EXCEPT !.pc = "aborted"]
          \/ \E t \in frame.slots :
               frame' = [frame EXCEPT !.res[frame.k - frame.i] = t[2],
                                      !.written = @ \cup {frame.k - frame.i},
                                      !.i = @ + 1]
  /\ UNCHANGED libVars

\* queryAndTopKWithScores and getTopKIndices: while (!min_heap.empty())
\* temp.push_back(top); min_heap.pop()
HeapDrainAll ==
  /\ frame.pc = "drain"
  /\ frame.routine \in {"queryAndTopKWithScores", "getTopKIndices"}
  /\ \E t \in Tops(frame.min_heap) :
       frame' = [frame EXCEPT !.res = Append(@, t[2]),
                              !.scr = Append(@, t[1]),
                              !.min_heap = @ \ {t}]
  /\ UNCHANGED libVars

\* the extraction is over: the fixed loop has run res.size() times; the
\* draining loop reverses what it collected
TopKReturn ==
  /\ frame.pc = "drain"
  /\ \/ /\ frame.routine \in {"queryAndTopK", "topKScore"}
        /\ frame.i = frame.k
        /\ frame' = [frame EXCEPT !.pc = "returned"]
     \/ /\ frame.routine \in {"queryAndTopKWithScores", "getTopKIndices"}
        /\ frame.min_heap = {}
        /\ frame' = [frame EXCEPT !.pc = "returned",
                                  !.res = Reverse(@),
                                  !.scr = Reverse(@),
                                  !.written = 1..Len(frame.res)]
  /\ UNCHANGED libVars

TopKNext ==
  \/ TopKEarlyReturn
  \/ queryResults
  \/ TopKEnter
  \/ HeapScan
  \/ HeapScanEnd
  \/ HeapDrainFixed
  \/ HeapDrainAll
  \/ TopKReturn

TopKSpec == TopKInit /\ [][TopKNext]_vars

----------------------------------------------------------------------------
(* A typed HEval exception inside handleInsert.  HEval's operations test  *)
(* their operands and throw (InvalidNTTStateException and the like); in    *)
(* handleInsert they are reached through Server::cacheKeys, whose calls    *)
(* all sit in the bodies of its "omp parallel for" loops.  An exception    *)
(* that leaves such a body is outside what OpenMP defines: the process is  *)
(* terminated, or the exception travels on to dispatchRequest's catch.     *)

\* the outcome of an exception that leaves cacheKeys in worker t, with the
\* collection as handleInsert has written it so far
Thrown(t, written) ==
  \E die \in BOOLEAN :
    IF die
      THEN /\ crashed' = TRUE
           /\ objs' = written
           /\ UNCHANGED <<th, mtx>>
      ELSE /\ crashed' = crashed
           /\ th' = Returned(t, InternalError)
           /\ mtx' = Unlocked(t)
           /\ objs' = Sweep(written, collections_, Returned(t, InternalError))

\* the round of handleInsert's loop that completes a block: the item is
\* stored, full_block_caches_.emplace_back(rank) is done, and cacheKeys
\* throws before partial_block_keys_.clear()
cacheFullBlockThrows(t) ==
  /\ ~crashed
  /\ th[t].pc = "insert"
  /\ th[t].i < th[t].req.num
  /\ th[t].req.cut # th[t].i + 1
  /\ LET id == th[t].ctx
         ctx == objs[id]
         item == th[t].req.items[th[t].i + 1]
         cell == ctx.db_size + th[t].i
         keys == Append(ctx.partial_block_keys_, item.key)
     IN /\ Len(keys) = DEGREE
        /\ cell < PIR_RANK * PIR_RANK
        /\ Thrown(t, [objs EXCEPT ![id] =
                        [ctx EXCEPT
                           !.payloads_ = Append(@, item.payload),
                           !.pir_encoded_payloads_ =
                              [@ EXCEPT ![cell] = encodePIRPayload(item.payload)],
                           !.partial_block_keys_ = keys,
                           !.full_block_caches_ = Append(@, CachedKeys)]])
  /\ UNCHANGED <<collections_, collections_mutex_, grid_oob, cli, frame>>

\* after the loop: partial_block_cache_ is a new CachedKeys and cacheKeys
\* throws on the padded block, before db_size grows
cachePartialBlockThrows(t) ==
  /\ ~crashed
  /\ th[t].pc = "insert"
  /\ th[t].i = th[t].req.num
  /\ LET id == th[t].ctx
         ctx == objs[id]
     IN /\ ctx.partial_block_keys_ # <<>>
        /\ Thrown(t, [objs EXCEPT ![id] = [ctx EXCEPT !.partial_block_cache_ = <<CachedKeys>>]])
  /\ UNCHANGED <<collections_, collections_mutex_, grid_oob, cli, frame>>

\* well-formed requests on one collection
FaultRequests ==
  {SetupReq(SeqHash, DEGREE \div 2, IP, 1, 1), DropReq(SeqHash)}
  \cup {InsertReq(SeqHash, n, BatchOf(n), 0) : n \in 1..MaxBatch}
  \cup {QueryReq(o, SeqHash, 1, 0) : o \in {"query", "query_ptxt"}}
  \cup {RetrieveReq(SeqHash, 1, <<i>>) : i \in 0..(PIR_RANK * PIR_RANK - 1)}
  \cup {PirReq(SeqHash, encryptPIR(0, 2 ^ PIR_FIRST_SCALE, PIR_LOG_RANK),
               encryptPIR(1, 2 ^ PIR_SECOND_SCALE, PIR_LOG_RANK), 0)}

\* the server under one connection, with no more items stored than the PIR
\* grid has cells, where cacheKeys may throw
FaultNext ==
  \/ \E req \in FaultRequests : RawReceive(CliThread, req)
  \/ Serve(CliThread, PIR_RANK * PIR_RANK)
  \/ cacheFullBlockThrows(CliThread)
  \/ cachePartialBlockThrows(CliThread)

FaultSpec == Init /\ [][FaultNext]_vars

----------------------------------------------------------------------------
(* HEval and Client routines as they are called: `res` is the object that  *)
(* receives the result, with the modulus, flag and coefficients it had     *)
(* before the call.  Every routine yields the new `res` and the exception  *)
(* it threw ("" when it returned).                                         *)

Returned_(res) == [res |-> res, thrown |-> ""]

Threw(res, exception) == [res |-> res, thrown |-> exception]

\* HEval::add(Polynomial): EltwiseAddMod into res.getData()
HEval_add(res, op1, op2) ==
  IF op1.is_ntt_ # op2.is_ntt_ THEN Threw(res, "InvalidNTTStateException")
  ELSE IF res.mod_ # op1.mod_ \/ op1.mod_ # op2.mod_
    THEN Threw(res, "InvalidModulusException")
  ELSE Returned_([res EXCEPT !.data_ = add(op1, op2).data_, !.is_ntt_ = op1.is_ntt_])

\* HEval::sub(Polynomial)
HEval_sub(res, op1, op2) ==
  IF op1.is_ntt_ # op2.is_ntt_ THEN Threw(res, "InvalidNTTStateException")
  ELSE IF res.mod_ # op1.mod_ \/ op1.mod_ # op2.mod_
    THEN Threw(res, "InvalidModulusException")
  ELSE Returned_([res EXCEPT !.data_ = sub(op1, op2).data_, !.is_ntt_ = op1.is_ntt_])

\* HEval::mult(Polynomial, Polynomial)
HEval_mult(res, op1, op2) ==
  IF ~op1.is_ntt_ \/ ~op2.is_ntt_ THEN Threw(res, "InvalidNTTStateException")
  ELSE IF res.mod_ # op1.mod_ \/ op1.mod_ # op2.mod_
    THEN Threw(res, "InvalidModulusException")
  ELSE Returned_([res EXCEPT !.data_ = mult(op1, op2).data_, !.is_ntt_ = TRUE])

\* HEval::mult(Polynomial, u64): EltwiseFMAMod modulo op1.getMod(), no test
HEval_multScalar(res, op1, op2) ==
  Returned_([res EXCEPT !.data_ = multScalar(op1, op2).data_, !.is_ntt_ = op1.is_ntt_])

\* HEval::mad: res = op1 * op2 + op3 modulo op1.getMod(); the NTT flags of
\* op1 and op3 are compared, no modulus is
HEval_mad(res, op1, op2, op3) ==
  IF op1.is_ntt_ # op3.is_ntt_ THEN Threw(res, "InvalidNTTStateException")
  ELSE Returned_([res EXCEPT
                    !.data_ = [i \in 1..Len(op1.data_) |->
                                 (op1.data_[i] * op2 + op3.data_[i]) % op1.mod_],
                    !.is_ntt_ = op1.is_ntt_])

\* HEval::ntt(Polynomial)
HEval_ntt(res, op) ==
  IF op.is_ntt_ THEN Threw(res, "InvalidNTTStateException")
  ELSE IF res.mod_ # op.mod_ THEN Threw(res, "InvalidModulusException")
  ELSE Returned_([res EXCEPT !.data_ = ntt(op).data_, !.is_ntt_ = TRUE])

\* HEval::intt(Polynomial)
HEval_intt(res, op) ==
  IF ~op.is_ntt_ THEN Threw(res, "InvalidNTTStateException")
  ELSE IF res.mod_ # op.mod_ THEN Threw(res, "InvalidModulusException")
  ELSE Returned_([res EXCEPT !.data_ = intt(op).data_, !.is_ntt_ = FALSE])

\* HEval::shift(Polynomial), res and op being different objects
HEval_shift(res, op, exponent, rank) ==
  IF op.is_ntt_ THEN Threw(res, "InvalidNTTStateException")
  ELSE Returned_([res EXCEPT !.data_ = shift(op, exponent, rank).data_, !.is_ntt_ = FALSE])

\* HEval::aut(Polynomial), res and op being different objects
HEval_aut(res, op, exponent, rank) ==
  IF op.is_ntt_ THEN Threw(res, "InvalidNTTStateException")
  ELSE Returned_([res EXCEPT !.data_ = aut(op, exponent, rank).data_, !.is_ntt_ = FALSE])

\* Client::encode with scale 1: entry i of the message goes to coefficient
\* (i + 1) * stack - 1, a positive entry as itself and any other as
\* MOD_Q - |entry|; the other coefficients of res are left alone
Client_encode(res, msg) ==
  LET stack == Len(res.data_) \div Len(msg)
      Abs(x) == IF x < 0 THEN 0 - x ELSE x
  IN Returned_([res EXCEPT !.data_ =
       [c \in 1..Len(res.data_) |->
          IF c % stack = 0
            THEN LET entry == msg[c \div stack]
                 IN IF entry > 0 THEN Abs(entry) ELSE MOD_Q - Abs(entry)
            ELSE res.data_[c]]])

\* Client::encodePIRPayload: res.setIsNTT(false), the digits, then ntt(res, res)
Client_encodePIRPayload(res, payload) ==
  Returned_([res EXCEPT !.data_ = encodePIRPayload(payload).data_, !.is_ntt_ = TRUE])

\* HEval::aut(Ciphertext, MLWECiphertext, keys, exponent), the B polynomial
\* of the result: op.getB()[j] goes to coefficient idx * stack with
\* idx = (j * exponent) & (2 * rank - 1), as itself when idx < rank and as
\* MOD_Q - op.getB()[j] at (idx - rank) * stack otherwise; multedB, the
\* key-switched part (below MOD_Q, from mult by INVERSE_P_MOD_Q), is added
\* without reduction; then ntt(res.getB(), res.getB()) with
\* inputModFactor 4
HEval_autLift(res, opB, multedB, exponent) ==
  LET rank == Len(opB.data_)
      degree == Len(res.data_)
      stack == degree \div rank
      Scattered(c) ==
        IF (c - 1) % stack # 0 THEN res.data_[c]
        ELSE LET t == (c - 1) \div stack
                 j == CHOOSE x \in 0..(rank - 1) : ((x * exponent) % (2 * rank)) % rank = t
                 idx == (j * exponent) % (2 * rank)
             IN IF idx < rank THEN opB.data_[j + 1] ELSE MOD_Q - opB.data_[j + 1]
      lazy == [c \in 1..degree |-> Scattered(c) + multedB.data_[c]]
  IN Returned_([res EXCEPT !.data_ = NttData(lazy, res.mod_), !.is_ntt_ = TRUE])

\* Ciphertext: polys_ as a sequence <<A, B>> or <<A, B, C>> modulo MOD_Q
getA(ctxt) == ctxt[1]

getB(ctxt) == ctxt[2]

getC(ctxt) == ctxt[3]

\* Ciphertext::getIsNTT
getIsNTT(ctxt) == ctxt[1].is_ntt_

\* sum over j in 1..n of term[j]
RECURSIVE SumOver(_, _)
SumOver(term, n) ==
  IF n = 0 THEN 0 ELSE term[n] + SumOver(term, n - 1)

\* HEval::multithreadMultSum(Ciphertext, vector<Ciphertext>, vector<Ciphertext>):
\* thread i of N_THREAD works on coefficients DEGREE_PER_THREAD * i and up,
\* and for every j adds op1[j * gap] * op2[j] onto what res holds
HEval_multithreadMultSum(res, op1, op2) ==
  IF ~getIsNTT(op1[1]) \/ ~getIsNTT(op2[1]) THEN Threw(res, "InvalidNTTStateException")
  ELSE
    LET DEGREE_PER_THREAD == DEGREE \div N_THREAD
        gap == Len(op1) \div Len(op2)
        n == Len(op2)
        First(j) == op1[(j - 1) * gap + 1]
        Worked(c) == c <= N_THREAD * DEGREE_PER_THREAD
        Acc(old, term(_, _)) ==
          [c \in 1..DEGREE |->
             IF Worked(c) THEN (old.data_[c] + SumOver([j \in 1..n |-> term(j, c)], n)) % MOD_Q
             ELSE old.data_[c]]
        AA(j, c) == getA(First(j)).data_[c] * getA(op2[j]).data_[c]
        AB(j, c) == getA(First(j)).data_[c] * getB(op2[j]).data_[c]
                    + getB(First(j)).data_[c] * getA(op2[j]).data_[c]
        BB(j, c) == getB(First(j)).data_[c] * getB(op2[j]).data_[c]
    IN Returned_(<<[getA(res) EXCEPT !.data_ = Acc(getA(res), AA), !.is_ntt_ = TRUE],
                   [getB(res) EXCEPT !.data_ = Acc(getB(res), AB), !.is_ntt_ = TRUE],
                   [getC(res) EXCEPT !.data_ = Acc(getC(res), BB), !.is_ntt_ = TRUE]>>)

\* HEval::multithreadMultSum(Ciphertext, vector<Ciphertext>, vector<Polynomial>)
HEval_multithreadMultSumPtxt(res, op1, op2) ==
  IF ~getIsNTT(op1[1]) \/ ~op2[1].is_ntt_ THEN Threw(res, "InvalidNTTStateException")
  ELSE
    LET DEGREE_PER_THREAD == DEGREE \div N_THREAD
        gap == Len(op1) \div Len(op2)
        n == Len(op2)
        First(j) == op1[(j - 1) * gap + 1]
        Worked(c) == c <= N_THREAD * DEGREE_PER_THREAD
        Acc(old, term(_, _)) ==
          [c \in 1..DEGREE |->
             IF Worked(c) THEN (old.data_[c] + SumOver([j \in 1..n |-> term(j, c)], n)) % MOD_Q
             ELSE old.data_[c]]
        AP(j, c) == getA(First(j)).data_[c] * op2[j].data_[c]
        BP(j, c) == getB(First(j)).data_[c] * op2[j].data_[c]
    IN Returned_(<<[getA(res) EXCEPT !.data_ = Acc(getA(res), AP), !.is_ntt_ = TRUE],
                   [getB(res) EXCEPT !.data_ = Acc(getB(res), BP), !.is_ntt_ = TRUE]>>)

----------------------------------------------------------------------------
(* Key switching *)

\* Const.hpp: the inverse of MOD_P modulo MOD_Q (97 * 10 = 57 * 17 + 1)
INVERSE_P_MOD_Q == 10

\* HEval::normMod: the centred representative of every coefficient of op,
\* taken modulo res.getMod(); no flag and no modulus is tested.  Between
\* MOD_Q and MOD_P, in either direction, diff is positive and no sum
\* reaches the width of u64
HEval_normMod(res, op) ==
  LET halfMod == op.mod_ \div 2
      isSmallPrime == halfMod <= res.mod_
      diff == res.mod_ - (IF isSmallPrime THEN op.mod_ ELSE op.mod_ % res.mod_)
      Coefficient(c) ==
        LET temp == IF c > halfMod THEN c + diff ELSE c
        IN IF isSmallPrime THEN temp ELSE temp % res.mod_
  IN Returned_([res EXCEPT !.data_ = [i \in 1..Len(op.data_) |-> Coefficient(op.data_[i])],
                           !.is_ntt_ = FALSE])

\* SwitchingKey: four polynomials, two modulo MOD_Q and two modulo MOD_P
SwitchingKey(aQ, aP, bQ, bP) ==
  [polyAModQ_ |-> aQ, polyAModP_ |-> aP, polyBModQ_ |-> bQ, polyBModP_ |-> bP]

\* Ciphertext::getIsExtended
getIsExtended(ctxt) == Len(ctxt) = 3

\* the objects of one call of keySwitch: its six local polynomials, res and
\* op; `same` says that res and op are one object, as in keySwitch(res, res,
\* autKey), where what is written to res is read back through op
KeySwitchLocals(res, op, same) ==
  [tempModQ |-> Polynomial(DEGREE, MOD_Q), tempModP |-> Polynomial(DEGREE, MOD_P),
   polyAModQ |-> Polynomial(DEGREE, MOD_Q), polyAModP |-> Polynomial(DEGREE, MOD_P),
   polyBModQ |-> Polynomial(DEGREE, MOD_Q), polyBModP |-> Polynomial(DEGREE, MOD_P),
   res |-> res, op |-> op, same |-> same, opIsNTT |-> getIsNTT(op), thrown |-> ""]

\* polynomial `which` of res receives the outcome of a call; the exception
\* of the call, if any, ends keySwitch
IntoRes(m, which, outcome) ==
  LET written == [m.res EXCEPT ![which] = outcome.res]
  IN [m EXCEPT !.res = written,
               !.op = IF m.same THEN written ELSE @,
               !.thrown = outcome.thrown]

\* a local polynomial receives the outcome of a call
IntoLocal(m, name, outcome) ==
  [m EXCEPT ![name] = outcome.res, !.thrown = outcome.thrown]

KeySwitchSteps == 19

\* statement `line` of HEval::keySwitch, in the order of the source; the
\* branch of the first test is taken on the flag op had at entry (opIsNTT),
\* the later tests read the flag op has by then
KeySwitchStep(m, line, swtKey) ==
  LET ext == getIsExtended(m.op)
  IN CASE line = 1 ->
            IF m.opIsNTT THEN IntoLocal(m, "tempModQ", HEval_intt(m.tempModQ, getA(m.op)))
            ELSE IntoLocal(m, "tempModQ", HEval_ntt(m.tempModQ, getA(m.op)))
       [] line = 2 ->
            IF m.opIsNTT THEN IntoLocal(m, "tempModP", HEval_normMod(m.tempModP, m.tempModQ))
            ELSE IntoLocal(m, "tempModP", HEval_normMod(m.tempModP, getA(m.op)))
       [] line = 3 ->
            IntoLocal(m, "polyAModQ",
                      HEval_mult(m.polyAModQ, IF m.opIsNTT THEN getA(m.op) ELSE m.tempModQ,
                                 swtKey.polyAModQ_))
       [] line = 4 ->
            IntoLocal(m, "polyBModQ",
                      HEval_mult(m.polyBModQ, IF m.opIsNTT THEN getA(m.op) ELSE m.tempModQ,
                                 swtKey.polyBModQ_))
       [] line = 5 -> IntoLocal(m, "tempModP", HEval_ntt(m.tempModP, m.tempModP))
       [] line = 6 ->
            IntoLocal(m, "polyAModP", HEval_mult(m.polyAModP, m.tempModP, swtKey.polyAModP_))
       [] line = 7 ->
            IntoLocal(m, "polyBModP", HEval_mult(m.polyBModP, m.tempModP, swtKey.polyBModP_))
       [] line = 8 -> IntoLocal(m, "polyAModP", HEval_intt(m.polyAModP, m.polyAModP))
       [] line = 9 -> IntoLocal(m, "tempModQ", HEval_normMod(m.tempModQ, m.polyAModP))
       [] line = 10 -> IntoLocal(m, "tempModQ", HEval_ntt(m.tempModQ, m.tempModQ))
       [] line = 11 -> IntoRes(m, 1, HEval_sub(getA(m.res), m.polyAModQ, m.tempModQ))
       [] line = 12 ->
            IF ext
              THEN IntoRes(m, 1, HEval_mad(getA(m.res), getA(m.res), INVERSE_P_MOD_Q, getB(m.op)))
              ELSE IntoRes(m, 1, HEval_multScalar(getA(m.res), getA(m.res), INVERSE_P_MOD_Q))
       [] line = 13 -> IntoLocal(m, "polyBModP", HEval_intt(m.polyBModP, m.polyBModP))
       [] line = 14 -> IntoLocal(m, "tempModQ", HEval_normMod(m.tempModQ, m.polyBModP))
       [] line = 15 -> IntoLocal(m, "tempModQ", HEval_ntt(m.tempModQ, m.tempModQ))
       [] line = 16 ->
            IF getIsNTT(m.op) THEN m
            ELSE IntoRes(m, 2, HEval_ntt(getB(m.res), getB(m.op)))
       [] line = 17 -> IntoLocal(m, "tempModQ", HEval_sub(m.tempModQ, m.polyBModQ, m.tempModQ))
       [] line = 18 ->
            IF ext
              THEN IntoRes(m, 2, HEval_mad(getB(m.res), m.tempModQ, INVERSE_P_MOD_Q, getC(m.op)))
              ELSE IntoRes(m, 2, HEval_ntt(getB(m.res), getB(m.op)))
       [] OTHER ->
            IF ext THEN m
            ELSE IntoRes(m, 2, HEval_mad(getB(m.res), m.tempModQ, INVERSE_P_MOD_Q, getB(m.res)))

\* the statements from `line` on, up to the first that throws
RECURSIVE KeySwitchFrom(_, _, _)
KeySwitchFrom(m, line, swtKey) ==
  IF m.thrown # "" \/ line > KeySwitchSteps THEN m
  ELSE KeySwitchFrom(KeySwitchStep(m, line, swtKey), line + 1, swtKey)

\* HEval::keySwitch(res, op, swtKey), res and op being different objects
HEval_keySwitch(res, op, swtKey) ==
  LET m == KeySwitchFrom(KeySwitchLocals(res, op, FALSE), 1, swtKey)
  IN [res |-> m.res, thrown |-> m.thrown]

\* HEval::keySwitch(res, res, swtKey)
HEval_keySwitchSelf(res, swtKey) ==
  LET m == KeySwitchFrom(KeySwitchLocals(res, res, TRUE), 1, swtKey)
  IN [res |-> m.res, thrown |-> m.thrown]

\* HEval::aut(Ciphertext): the automorphism of A and of B, then the key
\* switch of res in place
HEval_autCtxt(res, op, autKey, exponent) ==
  LET a == HEval_aut(getA(res), getA(op), exponent, DEGREE)
      b == HEval_aut(getB(res), getB(op), exponent, DEGREE)
      auted == [[res EXCEPT ![1] = a.res] EXCEPT ![2] = b.res]
  IN IF a.thrown # "" THEN Threw(res, a.thrown)
     ELSE IF b.thrown # "" THEN Threw([res EXCEPT ![1] = a.res], b.thrown)
     ELSE HEval_keySwitchSelf(auted, autKey)

\* HEval::relin
HEval_relin(res, op, relinKey) ==
  IF ~getIsExtended(op) THEN Threw(res, "InvalidExtendedStateException")
  ELSE HEval_keySwitch(res, op, relinKey)

----------------------------------------------------------------------------
(* The routines run on their own: the frame holds the arguments of one     *)
(* call, then its outcome                                                  *)

EvalMods == {MOD_Q, MOD_P}

\* coefficient vectors of zeros and largest residues of MOD_Q, in every
\* arrangement
SparseData(degree) == [1..degree -> {0, MOD_Q - 1}]

\* constant coefficient vectors
FlatData == {[i \in 1..DEGREE |-> v] : v \in {0, 1, MOD_Q - 1}}

Polys(data) ==
  {[mod_ |-> m, is_ntt_ |-> b, data_ |-> d] : m \in EvalMods, b \in BOOLEAN, d \in data}

Scalars == {0, 2}

\* odd exponents of shift and aut
Exponents == {1, 3, 2 * DEGREE - 1}

\* messages of DEGREE / 2 entries
Messages == [1..(DEGREE \div 2) -> {0 - 1, 0, 1}]

\* payload blocks whose bytes hold the digits 0000, 3210, 0123 and 3333
Payloads == {Block(b) : b \in {0, 27, 228, 255}}

\* a polynomial modulo MOD_Q whose coefficients differ from place to place
Ramp(v, isNTT) ==
  [mod_ |-> MOD_Q, is_ntt_ |-> isNTT, data_ |-> [i \in 1..DEGREE |-> (v * i) % MOD_Q]]

\* rank-1 ciphertexts in NTT form
Ctxts == {<<Ramp(a, TRUE), Ramp(b, TRUE)>> : a, b \in {1, 2}}

\* a ciphertext whose polynomials all hold v in every coefficient
Filled(v, extended) ==
  LET poly == [Polynomial(DEGREE, MOD_Q) EXCEPT !.data_ = [i \in 1..DEGREE |-> v]]
  IN IF extended THEN <<poly, poly, poly>> ELSE <<poly, poly>>

\* op1 of a multiply-sum: the ciphertexts of `used` at the places j * gap,
\* another ciphertext in between
Spread(used, gap) ==
  [k \in 1..(gap * Len(used)) |->
     IF (k - 1) % gap = 0 THEN used[((k - 1) \div gap) + 1]
     ELSE <<Ramp(3, TRUE), Ramp(3, TRUE)>>]

\* Ciphertext::setIsNTT(false)
CoefficientForm(ctxt) == [i \in 1..Len(ctxt) |-> setIsNTT(ctxt[i], FALSE)]

\* Polynomial::setIsNTT(false)
PolyCoefficientForm(poly) == setIsNTT(poly, FALSE)

\* operand vectors of 1 and 2 entries, all in NTT form or one entry not
Vectors(entries, Off(_)) ==
  LET plain == UNION {[1..m -> entries] : m \in 1..2}
  IN plain \cup {[j \in 1..Len(v) |-> IF j = k THEN Off(v[j]) ELSE v[j]] :
                   v \in plain, k \in {1, 2}}

\* switching keys, in NTT form
SwitchingKeys ==
  {SwitchingKey(Ramp(a, TRUE), [Ramp(a + 1, TRUE) EXCEPT !.mod_ = MOD_P],
                Ramp(b, TRUE), [Ramp(b + 2, TRUE) EXCEPT !.mod_ = MOD_P]) :
     a \in {1, 5}, b \in {2}}

\* the ciphertexts that are key-switched: of two and of three polynomials,
\* all in NTT form or all in coefficient form
SwitchedCtxts ==
  {[i \in 1..n |-> Ramp(v + i, isNTT)] : n \in {2, 3}, v \in {0, 7}, isNTT \in BOOLEAN}

EvalRoutines ==
  {"add", "sub", "mult", "multScalar", "mad", "ntt", "intt", "shift", "aut", "encode",
   "encodePIRPayload", "autLift", "multithreadMultSum", "multithreadMultSumPtxt",
   "keySwitch", "keySwitchSelf", "autCtxt", "relin"}

EvalFrame(routine, res, op1, op2, n, rank) ==
  [routine |-> routine, pc |-> "call", res |-> res, op1 |-> op1, op2 |-> op2, n |-> n,
   rank |-> rank, out |-> res, thrown |-> ""]

\* the calls of one routine
EvalFrames(routine) ==
  CASE routine \in {"add", "sub", "mult"} ->
         {EvalFrame(routine, Polynomial(DEGREE, m), op1, op2, 0, DEGREE) :
            m \in EvalMods, op1 \in Polys(FlatData), op2 \in Polys(FlatData)}
    [] routine = "mad" ->
         {EvalFrame(routine, Polynomial(DEGREE, m), op1, op3, n, DEGREE) :
            m \in EvalMods, op1 \in Polys(FlatData), op3 \in Polys(FlatData), n \in Scalars}
    [] routine \in {"multScalar", "ntt", "intt"} ->
         {EvalFrame(routine, Polynomial(DEGREE, m), op, op, n, DEGREE) :
            m \in EvalMods, op \in Polys(FlatData), n \in Scalars}
    [] routine \in {"shift", "aut"} ->
         {EvalFrame(routine, Polynomial(DEGREE, op.mod_), op, op, e, rank) :
            op \in Polys(SparseData(DEGREE)), e \in Exponents, rank \in {DEGREE \div 2, DEGREE}}
    [] routine = "encode" ->
         {EvalFrame(routine, Polynomial(DEGREE, MOD_Q), msg, msg, 0, DEGREE \div 2) :
            msg \in Messages}
    [] routine = "encodePIRPayload" ->
         {EvalFrame(routine, setIsNTT(Polynomial(DEGREE, MOD_Q), TRUE), payload, payload,
                    0, DEGREE) : payload \in Payloads}
    [] routine = "autLift" ->
         {EvalFrame(routine, Polynomial(DEGREE, MOD_Q),
                    [mod_ |-> MOD_Q, is_ntt_ |-> FALSE, data_ |-> d],
                    [mod_ |-> MOD_Q, is_ntt_ |-> FALSE, data_ |-> f], e, DEGREE \div 2) :
            d \in SparseData(DEGREE \div 2), f \in FlatData, e \in {1, 3}}
    [] routine = "multithreadMultSum" ->
         UNION {{EvalFrame(routine, Filled(v, TRUE), Spread(used, gap), op2, 0, DEGREE) :
                   v \in {0, 1}, gap \in {1, 2},
                   op2 \in {w \in Vectors(Ctxts, CoefficientForm) : Len(w) = Len(used)}} :
                  used \in UNION {[1..m -> Ctxts] : m \in 1..2}}
    [] routine \in {"keySwitch", "relin"} ->
         {EvalFrame(routine, Filled(v, FALSE), op, swtKey, 0, DEGREE) :
            v \in {0, 1}, op \in SwitchedCtxts, swtKey \in SwitchingKeys}
    [] routine = "keySwitchSelf" ->
         {EvalFrame(routine, op, op, swtKey, 0, DEGREE) :
            op \in SwitchedCtxts, swtKey \in SwitchingKeys}
    [] routine = "autCtxt" ->
         {EvalFrame(routine, Filled(v, getIsExtended(op)), op, swtKey, e, DEGREE) :
            v \in {0, 1}, op \in SwitchedCtxts, swtKey \in SwitchingKeys, e \in Exponents}
    [] OTHER ->
         UNION {{EvalFrame(routine, Filled(v, FALSE), Spread(used, gap), op2, 0, DEGREE) :
                   v \in {0, 1}, gap \in {1, 2},
                   op2 \in {w \in Vectors({Ramp(1, TRUE),
                                            [Ramp(2, TRUE) EXCEPT !.mod_ = MOD_P]},
                                           PolyCoefficientForm) :
                              Len(w) = Len(used)}} :
                  used \in UNION {[1..m -> Ctxts] : m \in 1..2}}

EvalInit ==
  /\ ServerInit
  /\ ClientInit
  /\ \E routine \in EvalRoutines : frame \in EvalFrames(routine)

\* the call of `routine` returns or throws
Called(routine, outcome) ==
  /\ frame.routine = routine
  /\ frame.pc = "call"
  /\ frame' = [frame EXCEPT !.pc = "returned", !.out = outcome.res, !.thrown = outcome.thrown]
  /\ UNCHANGED libVars

EvalNext ==
  \/ Called("add", HEval_add(frame.res, frame.op1, frame.op2))
  \/ Called("sub", HEval_sub(frame.res, frame.op1, frame.op2))
  \/ Called("mult", HEval_mult(frame.res, frame.op1, frame.op2))
  \/ Called("multScalar", HEval_multScalar(frame.res, frame.op1, frame.n))
  \/ Called("mad", HEval_mad(frame.res, frame.op1, frame.n, frame.op2))
  \/ Called("ntt", HEval_ntt(frame.res, frame.op1))
  \/ Called("intt", HEval_intt(frame.res, frame.op1))
  \/ Called("shift", HEval_shift(frame.res, frame.op1, frame.n, frame.rank))
  \/ Called("aut", HEval_aut(frame.res, frame.op1, frame.n, frame.rank))
  \/ Called("encode", Client_encode(frame.res, frame.op1))
  \/ Called("encodePIRPayload", Client_encodePIRPayload(frame.res, frame.op1))
  \/ Called("autLift", HEval_autLift(frame.res, frame.op1, frame.op2, frame.n))
  \/ Called("multithreadMultSum", HEval_multithreadMultSum(frame.res, frame.op1, frame.op2))
  \/ Called("multithreadMultSumPtxt",
            HEval_multithreadMultSumPtxt(frame.res, frame.op1, frame.op2))
  \/ Called("keySwitch", HEval_keySwitch(frame.res, frame.op1, frame.op2))
  \/ Called("keySwitchSelf", HEval_keySwitchSelf(frame.res, frame.op2))
  \/ Called("autCtxt", HEval_autCtxt(frame.res, frame.op1, frame.op2, frame.n))
  \/ Called("relin", HEval_relin(frame.res, frame.op1, frame.op2))

EvalSpec == EvalInit /\ [][EvalNext]_vars

----------------------------------------------------------------------------
(* The routines that draw randomness.  The frame holds the object a call   *)
(* writes, whether the entropy source works (`entropy`) and the words it   *)
(* delivers when it does (`words`).                                        *)

\* scaled with DEGREE: two of four coefficients of the secret key are set
HAMMING_WEIGHT == 2

\* scaled: the AES key has two bytes
AES_KEY_SIZE == 2

\* RAND_bytes(buf, num): 1 and buf filled, or another value and buf as it was
RAND_bytes(buf, entropy, words) ==
  IF entropy THEN [ret |-> 1, buf |-> words] ELSE [ret |-> 0, buf |-> buf]

\* Random::getRandomU32 and getRandomU8: the word, or the exception thrown
getRandom(entropy, word) ==
  IF RAND_bytes(0, entropy, word).ret # 1 THEN Threw(0, "runtime_error")
  ELSE Returned_(word)

\* Random::sampleUniform: RAND_bytes over res.getData(), its result unread,
\* then EltwiseReduceMod
Random_sampleUniform(res, entropy, words) ==
  LET drawn == RAND_bytes(res.data_, entropy, words).buf
  IN Returned_([res EXCEPT !.data_ = [i \in 1..Len(drawn) |-> drawn[i] % res.mod_]])

\* the Box-Muller transform of two 32-bit words given in quarters of 2^32,
\* GAUSSIAN_ERROR_STDEV being 3.2: radius = sqrt(-2 ln(w2 / 4)) * 3.2 rounds
\* to 5, 4 and 2 for w2 = 1, 2, 3, and theta = w1 * pi / 2; for w2 = 0 the
\* radius is infinite and lround is handed an infinity or a NaN, its value
\* `unspecified` then
BoxMuller(w1, w2, unspecified) ==
  LET radius == CASE w2 = 1 -> 5 [] w2 = 2 -> 4 [] OTHER -> 2
      cos == CASE w1 = 0 -> 1 [] w1 = 2 -> 0 - 1 [] OTHER -> 0
      sin == CASE w1 = 1 -> 1 [] w1 = 3 -> 0 - 1 [] OTHER -> 0
  IN IF w2 = 0 THEN <<unspecified, unspecified>> ELSE <<radius * cos, radius * sin>>

\* Random::sampleDiscreteGaussian(res): RAND_bytes over a zero-filled vector
\* of 32-bit words, its result unread, then one transform per pair
Random_sampleDiscreteGaussian(res, entropy, words, unspecified) ==
  LET rand == RAND_bytes([i \in 1..Len(res.data_) |-> 0], entropy, words).buf
      Val(c) == BoxMuller(rand[2 * ((c - 1) \div 2) + 1], rand[2 * ((c - 1) \div 2) + 2],
                          unspecified)[((c - 1) % 2) + 1]
  IN Returned_([res EXCEPT !.data_ =
                  [c \in 1..Len(res.data_) |->
                     IF Val(c) < 0 THEN res.mod_ + Val(c) ELSE Val(c)]])

\* the Fisher-Yates shuffle of genSecKey from draw k on: i = DEGREE - k,
\* j = draw % (i + 1), swap(indices[i], indices[j])
RECURSIVE Shuffle(_, _, _)
Shuffle(indices, words, k) ==
  IF k > DEGREE - 1 THEN indices
  ELSE LET i == DEGREE - k
           j == words[k] % (i + 1)
       IN Shuffle([indices EXCEPT ![i + 1] = indices[j + 1], ![j + 1] = indices[i + 1]],
                  words, k + 1)

\* Client::genSecKey: DEGREE - 1 draws of getRandomU32 for the shuffle,
\* HAMMING_WEIGHT draws of getRandomU8 for the signs, then ntt of both
\* polynomials; res is (polyModQ_, polyModP_)
Client_genSecKey(res, entropy, words) ==
  IF getRandom(entropy, words[1]).thrown # "" THEN Threw(res, "runtime_error")
  ELSE
    LET indices == Shuffle([i \in 1..DEGREE |-> i - 1], words, 1)
        Set(poly) ==
          [poly EXCEPT !.data_ =
             [c \in 1..DEGREE |->
                IF \E i \in 1..HAMMING_WEIGHT : indices[i] = c - 1
                  THEN LET i == CHOOSE x \in 1..HAMMING_WEIGHT : indices[x] = c - 1
                       IN IF words[DEGREE - 1 + i] % 2 = 1 THEN 1 ELSE poly.mod_ - 1
                  ELSE poly.data_[c]]]
        polyQ == HEval_ntt(Set(res[1]), Set(res[1]))
        polyP == HEval_ntt(Set(res[2]), Set(res[2]))
    IN IF polyQ.thrown # "" THEN Threw(<<Set(res[1]), Set(res[2])>>, polyQ.thrown)
       ELSE IF polyP.thrown # "" THEN Threw(<<polyQ.res, Set(res[2])>>, polyP.thrown)
       ELSE Returned_(<<polyQ.res, polyP.res>>)

\* EVDClient::EVDClient with no key file to load: generateAesKey(aesKey_),
\* its result unread, then aesKeyGenerated_ = true; res is
\* (aesKey_, aesKeyGenerated_), aesKey_ holding what the storage held
EVDClient_generateAesKey(res, entropy, words) ==
  Returned_([aesKey_ |-> RAND_bytes(res.aesKey_, entropy, words).buf,
             aesKeyGenerated_ |-> TRUE])

\* 64-bit words below, at and above the moduli
UniformWords == [1..DEGREE -> {0, MOD_Q, MOD_P + 1}]

\* 32-bit words in quarters of 2^32
GaussianWords == [1..DEGREE -> 0..3]

\* the draws of genSecKey: the shuffle's, then the signs'
SecKeyWords == [1..(DEGREE - 1 + HAMMING_WEIGHT) -> 0..2]

AesWords == [1..AES_KEY_SIZE -> {0, 255}]

\* what lround may give for an infinity or a NaN
LroundUnspecified == {0 - 8, 0}

RandRoutines == {"sampleUniform", "sampleDiscreteGaussian", "genSecKey", "generateAesKey"}

RandFrame(routine, res, entropy, words) ==
  [routine |-> routine, pc |-> "call", res |-> res, entropy |-> entropy, words |-> words,
   out |-> res, thrown |-> ""]

\* the calls of one routine; an aesKey_ never written holds any bytes
RandFrames(routine) ==
  CASE routine = "sampleUniform" ->
         {RandFrame(routine, Polynomial(DEGREE, m), e, w) :
            m \in EvalMods, e \in BOOLEAN, w \in UniformWords}
    [] routine = "sampleDiscreteGaussian" ->
         {RandFrame(routine, Polynomial(DEGREE, m), e, w) :
            m \in EvalMods, e \in BOOLEAN, w \in GaussianWords}
    [] routine = "genSecKey" ->
         {RandFrame(routine, <<Polynomial(DEGREE, MOD_Q), Polynomial(DEGREE, MOD_P)>>, e, w) :
            e \in BOOLEAN, w \in SecKeyWords}
    [] OTHER ->
         {RandFrame(routine, [aesKey_ |-> held, aesKeyGenerated_ |-> FALSE], e, w) :
            held \in AesWords, e \in BOOLEAN, w \in AesWords}

RandInit ==
  /\ ServerInit
  /\ ClientInit
  /\ \E routine \in RandRoutines : frame \in RandFrames(routine)

RandNext ==
  \/ Called("sampleUniform", Random_sampleUniform(frame.res, frame.entropy, frame.words))
  \/ \E unspecified \in LroundUnspecified :
       Called("sampleDiscreteGaussian",
              Random_sampleDiscreteGaussian(frame.res, frame.entropy, frame.words,
                                            unspecified))
  \/ Called("genSecKey", Client_genSecKey(frame.res, frame.entropy, frame.words))
  \/ Called("generateAesKey",
            EVDClient_generateAesKey(frame.res, frame.entropy, frame.words))

RandSpec == RandInit /\ [][RandNext]_vars

----------------------------------------------------------------------------
(* Setup under every metric: the coordinator's setupCollection with the    *)
(* metric given as a string, and another client's setup request with the   *)
(* metric byte as the wire carries it                                      *)

\* the values of a MetricType byte that name an enumerator
MetricTypes == {IP, L2, COSINE}

MetricStrings == {"IP", "L2", "COSINE"}

\* the worker that serves the other client's connection
RawThread == CHOOSE t \in Threads : t # CliThread

\* stringToMetricType
stringToMetricType(s) ==
  IF s = "IP" THEN Returned_(IP)
  ELSE IF s = "COSINE" THEN Returned_(COSINE)
  ELSE Threw(NULL, "invalid_argument")

\* setupCollection from its call: the dimension test, stringToMetricType,
\* then the first performPost
setupCollection(name, d, metric_type_str) ==
  LET metric_type == stringToMetricType(metric_type_str)
  IN IF d # 0 /\ d <= DEGREE /\ metric_type.thrown # ""
       THEN /\ cli.pc = "ready"
            /\ th[CliThread].pc = "idle"
            /\ cli' = Throws(cli, SetupCall(name, d, NULL))
            /\ UNCHANGED <<srvVars, frame>>
       ELSE setupCollectionPhase1(name, d, metric_type.res)

\* handleSetup's steps
ServeSetup(t) ==
  \/ FindLock(t)
  \/ FindCollection(t)
  \/ LockCollection(t, MaxStored)
  \/ SetupExisting(t)
  \/ RegisterLock(t)
  \/ Register(t)

MetricNext ==
  \/ \E name \in Names, s \in MetricStrings : setupCollection(name, DEGREE, s)
  \/ setupCollectionStatus
  \/ setupCollectionPhase2
  \/ setupCollectionConfirm
  \/ ServeSetup(CliThread)
  \/ \E name \in Names, m \in MetricTypes :
       RawReceive(RawThread, SetupReq(StdHash(name), DEGREE, m, 1, 1))
  \/ ServeSetup(RawThread)
  \/ RawReply(RawThread)

MetricSpec == Init /\ [][MetricNext]_vars

----------------------------------------------------------------------------
(* Parallel regions.  The frame holds the chain of calls and parallel      *)
(* loops one thread is inside, from a routine of Server down: a function   *)
(* is named as in the source, a `#pragma omp parallel for` by its file and *)
(* line.                                                                   *)

\* the parallel loops of Server.cpp and HEval.cpp that the routines below
\* reach
ParallelLoops ==
  {"Server.cpp:26", "Server.cpp:33", "Server.cpp:44", "Server.cpp:47", "Server.cpp:89",
   "Server.cpp:108", "Server.cpp:128", "Server.cpp:141", "Server.cpp:165", "Server.cpp:180",
   "HEval.cpp:114", "HEval.cpp:164", "HEval.cpp:214", "HEval.cpp:225", "HEval.cpp:245",
   "HEval.cpp:255", "HEval.cpp:425", "HEval.cpp:439", "HEval.cpp:515"}

\* what the body of a function or of a parallel loop starts: the parallel
\* loops written in it and the functions it calls
Body(node) ==
  CASE node = "Server::cacheQuery" -> {"Server.cpp:26", "Server.cpp:33"}
    [] node = "Server.cpp:26" -> {"HEval::normMod", "HEval::ntt"}
    [] node = "Server.cpp:33" ->
         {"Server.cpp:44", "Server.cpp:47", "Server.cpp:89", "HEval::aut", "HEval::ntt"}
    [] node = "Server.cpp:47" ->
         {"HEval::mult", "HEval::add", "HEval::intt", "HEval::normMod", "HEval::sub"}
    [] node = "Server::cacheQuery(CachedPlaintextQuery)" -> {"Server.cpp:108"}
    [] node = "Server.cpp:108" -> {"HEval::aut", "HEval::ntt"}
    [] node = "Server::cacheKeys" ->
         {"Server.cpp:128", "Server.cpp:141", "Server.cpp:165", "Server.cpp:180"}
    [] node \in {"Server.cpp:141", "Server.cpp:165"} ->
         {"HEval::shift(MLWECiphertext)", "HEval::sub(MLWECiphertext)",
          "HEval::add(MLWECiphertext)"}
    [] node = "Server.cpp:180" -> {"HEval::aut(MLWECiphertext)", "HEval::modPack"}
    [] node = "Server::innerProduct" ->
         {"HEval::multithreadMultSum", "HEval::mult", "HEval::relin"}
    [] node = "HEval::relin" -> {"HEval::keySwitch"}
    [] node = "HEval::keySwitch" ->
         {"HEval::intt", "HEval::normMod", "HEval::mult", "HEval::ntt", "HEval::sub",
          "HEval::mad"}
    [] node = "HEval::normMod" -> {"HEval.cpp:164"}
    [] node = "HEval::shift" -> {"HEval.cpp:114"}
    [] node = "HEval::add(MLWECiphertext)" -> {"HEval.cpp:214"}
    [] node = "HEval.cpp:214" -> {"HEval::add"}
    [] node = "HEval::sub(MLWECiphertext)" -> {"HEval.cpp:225"}
    [] node = "HEval.cpp:225" -> {"HEval::sub"}
    [] node = "HEval::shift(MLWECiphertext)" -> {"HEval.cpp:245"}
    [] node = "HEval.cpp:245" -> {"HEval::shift"}
    [] node = "HEval::aut(MLWECiphertext)" -> {"HEval.cpp:255"}
    [] node = "HEval.cpp:255" -> {"HEval::aut"}
    [] node = "HEval::modPack" ->
         {"HEval.cpp:425", "HEval.cpp:439", "HEval::normMod", "HEval::ntt", "HEval::mult",
          "HEval::add", "HEval::intt", "HEval::sub", "HEval::mad"}
    [] node = "HEval::multithreadMultSum" -> {"HEval.cpp:515"}
    [] OTHER -> {}

\* the routines of Server that EVDServer's handlers call
ServerRoutines ==
  {"Server::cacheQuery", "Server::cacheQuery(CachedPlaintextQuery)", "Server::cacheKeys",
   "Server::innerProduct"}

\* HEval::HEval: omp_set_max_active_levels(1), omp_set_num_threads(N_THREAD)
HEval_HEval == [max_active_levels |-> 1, num_threads |-> N_THREAD]

\* omp_get_level: the parallel regions the thread is inside
omp_get_level(stack) == Cardinality({k \in 1..Len(stack) : stack[k].node \in ParallelLoops})

\* omp_get_active_level: those of them run by a team of more than one thread
omp_get_active_level(stack) ==
  Cardinality({k \in 1..Len(stack) : stack[k].node \in ParallelLoops /\ stack[k].team > 1})

ParInit ==
  /\ ServerInit
  /\ ClientInit
  /\ \E routine \in ServerRoutines :
       frame = [routine |-> "omp", pc |-> "run", icv |-> HEval_HEval,
                stack |-> <<[node |-> routine, team |-> 0, thread |-> 0]>>]

\* the thread calls a function from where it is
CallFunction ==
  /\ frame.routine = "omp"
  /\ \E node \in Body(frame.stack[Len(frame.stack)].node) \ ParallelLoops :
       frame' = [frame EXCEPT !.stack = Append(@, [node |-> node, team |-> 0, thread |-> 0])]
  /\ UNCHANGED libVars

\* the thread meets a parallel loop: a team of num_threads while fewer than
\* max_active_levels regions are active around it, of one thread otherwise;
\* the frame goes on with one thread of the team
ParallelFor ==
  /\ frame.routine = "omp"
  /\ \E node \in Body(frame.stack[Len(frame.stack)].node) \cap ParallelLoops :
       LET team == IF omp_get_active_level(frame.stack) < frame.icv.max_active_levels
                     THEN frame.icv.num_threads ELSE 1
       IN \E thread \in 0..(team - 1) :
            frame' = [frame EXCEPT
                        !.stack = Append(@, [node |-> node, team |-> team, thread |-> thread])]
  /\ UNCHANGED libVars

\* the function returns, or the thread's share of the loop ends
LeaveBody ==
  /\ frame.routine = "omp"
  /\ Len(frame.stack) > 1
  /\ frame' = [frame EXCEPT !.stack = SubSeq(@, 1, Len(@) - 1)]
  /\ UNCHANGED libVars

ParNext == CallFunction \/ ParallelFor \/ LeaveBody

ParSpec == ParInit /\ [][ParNext]_vars

----------------------------------------------------------------------------
(* Inserts on one connection, with the collections as they were when the   *)
(* request arrived kept in the frame (history)                             *)

\* the requests: the key upload of a setup, inserts whole and cut short
InsertRequests ==
  {SetupReq(SeqHash, DEGREE \div 2, IP, 1, 1)}
  \cup {InsertReq(SeqHash, n, BatchOf(n), c) : n \in 1..MaxBatch, c \in 0..MaxBatch}

\* the object table is noted before a request is read
Snapshot ==
  /\ th[CliThread].pc = "idle"
  /\ frame # [routine |-> "snapshot", pc |-> "held", objs |-> objs]
  /\ frame' = [routine |-> "snapshot", pc |-> "held", objs |-> objs]
  /\ UNCHANGED libVars

InsertNext ==
  \/ Snapshot
  \/ \E req \in InsertRequests :
       /\ frame = [routine |-> "snapshot", pc |-> "held", objs |-> objs]
       /\ RawReceive(CliThread, req)
  \/ FindLock(CliThread)
  \/ FindCollection(CliThread)
  \/ LockCollection(CliThread, PIR_RANK * PIR_RANK)
  \/ SetupExisting(CliThread)
  \/ RegisterLock(CliThread)
  \/ Register(CliThread)
  \/ InsertItem(CliThread)
  \/ InsertFinish(CliThread)
  \/ RawReply(CliThread)

InsertSpec == Init /\ [][InsertNext]_vars

----------------------------------------------------------------------------
(* Properties *)

\* worker t takes this step
Acts(t) == th'[t] # th[t]

\* the request that worker t is handling in this step
Handled(t) == IF th[t].pc = "idle" THEN th'[t].req ELSE th[t].req

\* worker t returns from its handler in this step
Returns(t) == th[t].pc \notin {"idle", "done"} /\ th'[t].pc = "done"

\* worker t is inside the part of an insert, query, retrieve or PIR
\* retrieve handler that reads or writes collection id
Inside(t, id) ==
  /\ th[t].ctx = id
  /\ th[t].pc \in {"insert", "query", "query_ptxt", "retrieve", "pir_retrieve"}

\* this step leaves the registry and every registered collection as they were
RecordsKept ==
  /\ collections_' = collections_
  /\ \A h \in Hashes : collections_[h] # NULL => objs'[collections_[h]] = objs[collections_[h]]

CeilDiv(a, b) == (a + b - 1) \div b

\* C1: on any one collection at most one worker is inside an insert, query,
\* retrieve or PIR retrieve handler, and that worker holds the collection's
\* lock; so no reader is inside while an insert is partially applied
C1_MutualExclusion ==
  \A id \in ObjIds :
    /\ \A t \in Threads : Inside(t, id) => mtx[id] = t
    /\ \A t, u \in Threads : Inside(t, id) /\ Inside(u, id) => t = u

\* a query waits for the lock while an insert on the same collection has
\* applied its first item and not its second
C1_Witness ==
  \E t, u \in Threads :
    /\ th[t].pc = "insert" /\ th[t].i = 1 /\ th[t].req.num > 1
    /\ th[u].pc = "lock" /\ th[u].req.op = "query" /\ th[u].ctx = th[t].ctx

\* C2: a query answered 200 carries ceil(db_size / DEGREE) ciphertexts (as
\* long as no write went past the end of the PIR grid)
C2_QueryBlockCount ==
  [][\A t \in Threads :
       (/\ th[t].pc \in {"query", "query_ptxt"}
        /\ Returns(t)
        /\ th'[t].resp.http = 200
        /\ ~grid_oob)
       => Len(th'[t].resp.body) = CeilDiv(objs[th[t].ctx].db_size, DEGREE)]_vars

\* C3: a setup request that finds the collection registered with the
\* dimension and metric it carries is answered status 0 with the
\* collection's db_size, and no step of its handling changes the registry
\* or a registered collection
C3_SecondSetup ==
  [][\A t \in Threads :
       (/\ Acts(t)
        /\ th[t].req.op = "setup"
        /\ th[t].pc \in {"lock", "setup"}
        /\ objs[th[t].ctx].dimension = th[t].req.dimension
        /\ objs[th[t].ctx].metric_type = th[t].req.metric)
       => /\ RecordsKept
          /\ th[t].pc = "setup" =>
               /\ th'[t].pc = "done"
               /\ th'[t].resp.http = 200
               /\ th'[t].resp.body = <<0, th[t].req.dimension, th[t].req.metric,
                                       objs[th[t].ctx].db_size>>]_vars

\* a second setup was answered status 0 with the size of a collection that
\* holds vectors
C3_Witness ==
  \E t \in Threads :
    /\ th[t].pc = "done" /\ th[t].req.op = "setup"
    /\ th[t].resp.http = 200 /\ th[t].resp.body[1] = 0 /\ th[t].resp.body[4] > 0
    /\ collections_[th[t].req.hash] # NULL
    /\ objs[collections_[th[t].req.hash]].db_size = th[t].resp.body[4]

\* C4: a setup request that finds the collection registered with another
\* dimension is answered status 2, and no step of its handling changes the
\* registry or a registered collection
C4_DimensionMismatch ==
  [][\A t \in Threads :
       (/\ Acts(t)
        /\ th[t].req.op = "setup"
        /\ th[t].pc \in {"lock", "setup"}
        /\ objs[th[t].ctx].dimension # th[t].req.dimension)
       => /\ RecordsKept
          /\ th[t].pc = "setup" =>
               /\ th'[t].pc = "done"
               /\ th'[t].resp.http = 200
               /\ th'[t].resp.body[1] = 2]_vars

\* a setup of another dimension was answered status 2 and the collection
\* still has its dimension and its vectors
C4_Witness ==
  \E t \in Threads :
    /\ th[t].pc = "done" /\ th[t].req.op = "setup"
    /\ th[t].resp.http = 200 /\ th[t].resp.body[1] = 2
    /\ collections_[th[t].req.hash] # NULL
    /\ objs[collections_[th[t].req.hash]].dimension # th[t].req.dimension
    /\ objs[collections_[th[t].req.hash]].db_size > 0

\* worker t looks the hash of a first-phase setup up and finds nothing
Phase1Lookup(t) ==
  /\ th[t].pc = "find"
  /\ th[t].req.op = "setup"
  /\ collections_[th[t].req.hash] = NULL
  /\ th[t].req.has_keys = 0

\* C5: a setup is answered status 1 exactly in the step that finds its hash
\* unregistered while it carries no keys; that step creates no collection;
\* a hash becomes registered only by a setup that carries keys, which is
\* answered status 0 in the same step
C5_Handshake ==
  [][\A t \in Threads :
       (Acts(t) /\ th[t].pc # "idle")
       => /\ (/\ th[t].req.op = "setup"
              /\ Returns(t)
              /\ th'[t].resp.http = 200
              /\ th'[t].resp.body[1] = 1) <=> Phase1Lookup(t)
          /\ Phase1Lookup(t) => collections_' = collections_ /\ objs' = objs
          /\ \A h \in Hashes :
               (collections_'[h] # collections_[h] /\ collections_'[h] # NULL)
               => /\ th[t].req.op = "setup"
                  /\ th[t].req.hash = h
                  /\ th[t].req.has_keys = 1
                  /\ th'[t].pc = "done"
                  /\ th'[t].resp.http = 200
                  /\ th'[t].resp.body[1] = 0]_vars

\* one first-phase setup was answered status 1 and left its hash
\* unregistered; a setup with keys was answered status 0 and its hash is
\* registered
C5_Witness ==
  \E t, u \in Threads :
    /\ th[t].pc = "done" /\ th[t].req.op = "setup" /\ th[t].req.has_keys = 0
    /\ th[t].resp.http = 200 /\ th[t].resp.body[1] = 1
    /\ collections_[th[t].req.hash] = NULL
    /\ th[u].pc = "done" /\ th[u].req.op = "setup" /\ th[u].req.has_keys = 1
    /\ th[u].resp.http = 200 /\ th[u].resp.body = <<0, th[u].req.dimension, th[u].req.metric, 0>>
    /\ collections_[th[u].req.hash] # NULL

\* C6: once dropCollection has returned, the hash is unregistered and no
\* CollectionData is alive; and the size that setupCollection returns is the
\* number of vectors inserted since the name was last dropped, so it is 0
\* for a collection set up again after a drop
C6_DropDestroys ==
  /\ (cli.pc = "ready" /\ cli.call.op = "drop" /\ cli.ret.kind = "value")
       => /\ collections_[StdHash(cli.call.name)] = NULL
          /\ \A id \in ObjIds : ~objs[id].live
  /\ (cli.pc = "ready" /\ cli.call.op = "setup" /\ cli.ret.kind = "value")
       => /\ cli.ret.size = Len(cli.stored[cli.call.name])
          /\ cli.db_sizes_[cli.call.name] = cli.ret.size
          /\ objs[collections_[StdHash(cli.call.name)]].db_size = cli.ret.size

\* vectors were inserted, the collection was dropped, and the setup under
\* the same name has just returned 0
C6_Witness ==
  /\ cli.pc = "ready" /\ cli.call.op = "setup" /\ cli.ret.kind = "value"
  /\ cli.emptied[cli.call.name]
  /\ cli.stored[cli.call.name] = <<>>
  /\ cli.ret.size = 0

\* C7: retrieve(0) on a collection that was dropped and set up again, and
\* holds nothing, throws
C7_RetrieveOnEmpty ==
  (/\ cli.pc = "ready"
   /\ cli.call.op = "retrieve"
   /\ cli.call.index = 0
   /\ cli.emptied[cli.call.name]
   /\ cli.collections_[cli.call.name].present
   /\ cli.db_sizes_[cli.call.name] = 0)
  => cli.ret.kind = "throw"

C9_RetrieveBlock ==
  [][\A t \in Threads :
       (/\ th[t].pc = "retrieve"
        /\ Returns(t)
        /\ th'[t].resp.http = 200
        /\ ~grid_oob)
       => \A k \in 1..th[t].req.num :
            th[t].req.indices[k] < objs[th[t].ctx].db_size
            => th'[t].resp.body[k] = objs[th[t].ctx].accepted[th[t].req.indices[k] + 1]]_vars

\* C10: retrievePIR of an index below the database size (which is at most
\* PIR_RANK^2) returns the payload inserted at that index; and the response
\* it gets decodes to the block of the grid cell of that index, the AES block
\* inserted at the index
C10_PirRoundTrip ==
  /\ (cli.pc = "ready" /\ cli.call.op = "retrievePIR"
      /\ cli.call.index < cli.db_sizes_[cli.call.name])
       => /\ cli.ret.kind = "value"
          /\ cli.ret.text = cli.stored[cli.call.name][cli.call.index + 1]
  /\ (cli.pc = "retrievePIR" /\ th[CliThread].pc = "done")
       => /\ th[CliThread].resp.http = 200
          /\ decodePIRPayload(decrypt(th[CliThread].resp.body[1],
                                      2 ^ (PIR_FIRST_SCALE + PIR_SECOND_SCALE)))
             = encryptPayload(cli.stored[cli.call.name][cli.call.index + 1], cli.call.index)

\* retrievePIR has returned the payload of an index in the second row of
\* the grid, and the cell that mirrors it across the diagonal holds another
\* payload
C10_Witness ==
  /\ cli.pc = "ready" /\ cli.call.op = "retrievePIR" /\ cli.ret.kind = "value"
  /\ cli.call.index = PIR_RANK
  /\ cli.db_sizes_[cli.call.name] > PIR_RANK
  /\ cli.ret.text = cli.stored[cli.call.name][PIR_RANK + 1]
  /\ cli.stored[cli.call.name][PIR_RANK + 1] # cli.stored[cli.call.name][2]

\* the global indices a top-K routine selects from
Candidates(f) ==
  IF f.routine = "topKScore" THEN 0..(Iter(f.db_size) * DEGREE - 1) ELSE 0..(f.db_size - 1)

\* a ranks before b: the larger score first, the lower index first on a tie
RanksBefore(f, a, b) ==
  \/ Offered(f, a) > Offered(f, b)
  \/ Offered(f, a) = Offered(f, b) /\ a < b

\* C11: what query, queryAndTopK and queryAndTopKWithScores return holds no
\* entry of a position at or past db_size: query returns the scores of the
\* indices 0..db_size-1 in order, and every index (and score) the top-K
\* calls write belongs to an index below db_size
C11_PaddingDiscarded ==
  (/\ frame.pc = "returned"
   /\ frame.routine \in {"query", "queryAndTopK", "queryAndTopKWithScores"})
  => /\ \A n \in frame.written : frame.res[n] \in 0..(frame.db_size - 1)
     /\ frame.routine = "query"
          => /\ frame.res = [n \in 1..frame.db_size |-> n - 1]
             /\ frame.scr = [n \in 1..frame.db_size |-> ScoreAt(frame.dmsg, n - 1)]
     /\ frame.routine = "queryAndTopKWithScores"
          => \A n \in frame.written : frame.scr[n] = ScoreAt(frame.dmsg, frame.res[n])

\* queryAndTopK has returned MaxK indices of a database of a full block and
\* a partial block, one of them with a score below the padding's
C11_Witness ==
  /\ frame.pc = "returned" /\ frame.routine = "queryAndTopK"
  /\ frame.db_size = DEGREE + 1
  /\ frame.k = MaxK /\ frame.written = 1..MaxK
  /\ \E n \in frame.written : ScoreAt(frame.dmsg, frame.res[n]) < PadScore

\* C12: when K does not exceed the number of scores, topKScore, queryAndTopK
\* and getTopKIndices return the indices of the K largest scores, the larger
\* score first and the lower index first among equal scores
C12_TopKOrder ==
  (/\ frame.pc = "returned"
   /\ frame.routine \in {"topKScore", "queryAndTopK", "getTopKIndices"}
   /\ frame.k > 0
   /\ frame.k <= Cardinality(Candidates(frame)))
  => /\ Len(frame.res) = frame.k
     /\ \A n \in 1..frame.k :
          /\ frame.res[n] \in Candidates(frame)
          /\ Cardinality({g \in Candidates(frame) : RanksBefore(frame, g, frame.res[n])}) = n - 1

\* C13: an insert derives the IV of no payload from a global index that
\* already gave the IV of an earlier payload under the client's AES key
C13_DistinctIv ==
  [][(cli.pc = "ready" /\ cli'.pc = "insert")
       => \A k \in 1..Len(cli'.call.items) :
            cli.db_sizes_[cli'.call.name] + (k - 1) \notin cli.ivs]_vars

\* the request that worker t is about to answer meets an input error: it
\* names a collection that is not registered, it is a PIR retrieve on a
\* database larger than the PIR grid, or it is a setup with keys whose
\* dimension is 0 or above DEGREE
InputError(t) ==
  LET req == th[t].req
  IN \/ /\ th[t].pc = "find"
        /\ req.op \in {"insert", "query", "query_ptxt", "retrieve", "pir_retrieve"}
        /\ collections_[req.hash] = NULL
     \/ /\ th[t].pc = "pir_retrieve"
        /\ objs[th[t].ctx].db_size > PIR_RANK * PIR_RANK
     \/ /\ th[t].pc = "find"
        /\ req.op = "setup" /\ req.has_keys = 1
        /\ collections_[req.hash] = NULL
        /\ req.dimension \notin 1..DEGREE

\* C14: a request that meets an input error is answered with a client-error
\* status and a message, never with the generic internal-error response
C14_InputErrorStructured ==
  [][\A t \in Threads :
       (InputError(t) /\ Returns(t))
       => /\ th'[t].resp # InternalError
          /\ th'[t].resp.http \in 400..499
          /\ th'[t].resp.msg # ""]_vars

\* the handler found the request's bytes malformed
MalformedAnswer(resp) ==
  /\ resp.http = 400
  /\ resp.msg \in {"Malformed setup request", "Malformed insert request",
                   "Malformed query request", "Malformed retrieve request",
                   "Malformed PIR retrieve request", "Malformed relin key payload",
                   "Malformed payload data", "Malformed query payload (A)",
                   "Malformed plaintext query payload", "Malformed retrieve index",
                   "Malformed PIR query payload"}

\* C15: after the answer to a malformed request is written, the session
\* closes the connection
C15_MalformedCloses ==
  [][\A t \in Threads :
       (th[t].pc = "done" /\ th'[t].pc = "idle" /\ MalformedAnswer(th[t].resp))
       => Closes(t)]_vars

\* C16: when a typed HEval exception is raised inside a handler only that
\* request fails: the process goes on, the worker that returns holds no
\* collection lock, and the requests served afterwards are served
\* correctly: a well-formed query on a collection that is not empty is
\* answered 200 with ceil(db_size / DEGREE) ciphertexts, and a retrieve
\* answered 200 returns, for every index below db_size, the block of the
\* accepted insert item with that global index
C16_OnlyThatRequestFails ==
  [][/\ ~crashed'
     /\ \A t \in Threads :
          Returns(t) =>
            /\ \A id \in ObjIds : mtx'[id] # t
            /\ (/\ th[t].pc \in {"query", "query_ptxt"}
                /\ objs[th[t].ctx].db_size > 0
                /\ th[t].req.cut = 0)
               => /\ th'[t].resp.http = 200
                  /\ Len(th'[t].resp.body) = CeilDiv(objs[th[t].ctx].db_size, DEGREE)
            /\ (th[t].pc = "retrieve" /\ th'[t].resp.http = 200)
               => \A k \in 1..th[t].req.num :
                    th[t].req.indices[k] < objs[th[t].ctx].db_size
                    => th'[t].resp.body[k] =
                         objs[th[t].ctx].accepted[th[t].req.indices[k] + 1]]_vars

C18_CoefficientsBelowModulus ==
  (/\ frame.pc = "returned"
   /\ frame.thrown = ""
   /\ frame.routine \in {"encode", "encodePIRPayload", "shift", "aut", "autLift"})
  => \A c \in 1..Len(frame.out.data_) : frame.out.data_[c] < frame.out.mod_

\* the call in the frame breaks a requirement on its operands: add, sub and
\* mad want operands of one NTT state, mult and the multiply-sums want every
\* operand in NTT form, ntt wants coefficient form and intt NTT form, and
\* all of them want one modulus for the result and the operands
Mismatched(f) ==
  LET mods(polys) == {p.mod_ : p \in polys}
      flat(vector) == UNION {{vector[j][i] : i \in 1..Len(vector[j])} : j \in 1..Len(vector)}
      all(vector) == {vector[j] : j \in 1..Len(vector)}
  IN CASE f.routine \in {"add", "sub", "mad"} ->
            f.op1.is_ntt_ # f.op2.is_ntt_ \/ mods({f.res, f.op1, f.op2}) # {f.res.mod_}
       [] f.routine = "mult" ->
            ~f.op1.is_ntt_ \/ ~f.op2.is_ntt_ \/ mods({f.res, f.op1, f.op2}) # {f.res.mod_}
       [] f.routine = "multScalar" -> f.res.mod_ # f.op1.mod_
       [] f.routine = "ntt" -> f.op1.is_ntt_ \/ f.res.mod_ # f.op1.mod_
       [] f.routine = "intt" -> ~f.op1.is_ntt_ \/ f.res.mod_ # f.op1.mod_
       [] f.routine = "multithreadMultSum" ->
            \/ \E p \in flat(f.op1) \cup flat(f.op2) : ~p.is_ntt_
            \/ mods(all(f.res) \cup flat(f.op1) \cup flat(f.op2)) # {MOD_Q}
       [] f.routine = "multithreadMultSumPtxt" ->
            \/ \E p \in flat(f.op1) \cup all(f.op2) : ~p.is_ntt_
            \/ mods(all(f.res) \cup flat(f.op1) \cup all(f.op2)) # {MOD_Q}
       [] OTHER -> FALSE

\* C19: add, sub, mult, the scalar mult, mad, ntt, intt and the batched
\* multiply-sums throw a typed error whenever an operand's NTT state does
\* not meet the operation's requirement or the moduli of the result and the
\* operands differ: none of them returns from a call on mismatched operands
C19_MismatchThrows ==
  (frame.pc = "returned" /\ Mismatched(frame)) => frame.thrown # ""

\* coefficient c of the sum over j of the products term(j, c), modulo MOD_Q
SumOfProducts(term(_, _), n, c) ==
  SumOver([j \in 1..n |-> term(j, c)], n) % MOD_Q

\* C20: multithreadMultSum(res, op1, op2) on operands in NTT form with
\* op1.size() = gap * op2.size() leaves res = (A, B, C) with
\* A = sum A1*A2, B = sum (A1*B2 + B1*A2), C = sum B1*B2 over the pairs
\* op1[j*gap], op2[j], in NTT form, whatever res held before the call
C20_MultSumExact ==
  (/\ frame.routine = "multithreadMultSum"
   /\ frame.pc = "returned"
   /\ frame.thrown = ""
   /\ ~Mismatched(frame))
  => LET n == Len(frame.op2)
         gap == Len(frame.op1) \div n
         x(j) == frame.op1[(j - 1) * gap + 1]
         y(j) == frame.op2[j]
         AA(j, c) == getA(x(j)).data_[c] * getA(y(j)).data_[c]
         AB(j, c) == getA(x(j)).data_[c] * getB(y(j)).data_[c]
                     + getB(x(j)).data_[c] * getA(y(j)).data_[c]
         BB(j, c) == getB(x(j)).data_[c] * getB(y(j)).data_[c]
     IN /\ Len(frame.op1) = gap * n
        /\ \A i \in 1..3 : frame.out[i].is_ntt_
        /\ \A c \in 1..DEGREE :
             /\ getA(frame.out).data_[c] = SumOfProducts(AA, n, c)
             /\ getB(frame.out).data_[c] = SumOfProducts(AB, n, c)
             /\ getC(frame.out).data_[c] = SumOfProducts(BB, n, c)

\* C21: when the entropy source fails, uniform sampling, Gaussian sampling,
\* secret-key generation and AES key generation each end with an error, never
\* with output
C21_EntropyFailureFails ==
  (frame.pc = "returned" /\ ~frame.entropy) => frame.thrown # ""

\* C22: no collection whose metric is L2 is ever registered on the server,
\* and the client never holds a context whose metric is L2
C22_NoL2Collection ==
  /\ \A h \in Hashes :
       collections_[h] # NULL => objs[collections_[h]].metric_type # L2
  /\ \A name \in Names :
       cli.collections_[name].present => cli.collections_[name].metric_type # L2

\* C23: no parallel loop is started from inside an iteration of another
\* parallel loop: a thread is inside one parallel region at most
C23_NoNestedRegion ==
  frame.routine = "omp" => omp_get_level(frame.stack) <= 1

\* the collections that are registered or that a request still refers to
LiveCollections == {id \in ObjIds : objs[id].live}

\* C24: whenever no request holds a collection's lock, payloads_.size() =
\* db_size, full_block_caches_.size() = db_size / DEGREE,
\* partial_block_keys_.size() = db_size mod DEGREE, and partial_block_cache_
\* exists exactly when db_size mod DEGREE is not 0
C24_Bookkeeping ==
  \A id \in LiveCollections :
    mtx[id] = NULL =>
      /\ Len(objs[id].payloads_) = objs[id].db_size
      /\ Len(objs[id].full_block_caches_) = objs[id].db_size \div DEGREE
      /\ Len(objs[id].partial_block_keys_) = objs[id].db_size % DEGREE
      /\ (objs[id].partial_block_cache_ # <<>>) <=> (objs[id].db_size % DEGREE # 0)

\* worker t ends an insert with an error response
InsertRefused(t) ==
  /\ th[t].req.op = "insert"
  /\ th[t].pc # "done"
  /\ th'[t].pc = "done"
  /\ th'[t].resp.http # 200

\* C25: an insert request that is answered with an error leaves the
\* collection's db_size, payloads, pending key list, block caches and encoded
\* payload grid as they were before the request
C25_RefusedInsertLeavesState ==
  [][\A t \in Threads :
       (InsertRefused(t) /\ th[t].ctx # NULL) =>
         LET now == objs'[th[t].ctx]
             before == frame.objs[th[t].ctx]
         IN /\ now.db_size = before.db_size
            /\ now.payloads_ = before.payloads_
            /\ now.partial_block_keys_ = before.partial_block_keys_
            /\ now.full_block_caches_ = before.full_block_caches_
            /\ now.partial_block_cache_ = before.partial_block_cache_
            /\ now.pir_encoded_payloads_ = before.pir_encoded_payloads_]_vars

C27_RegisteredOnce ==
  [][\A h \in Hashes :
       (collections_[h] # NULL /\ collections_'[h] # collections_[h]) =>
         collections_'[h] = NULL]_vars

\* C28: insert never writes pir_encoded_payloads_ at an index at or beyond
\* PIR_RANK * PIR_RANK
C28_GridWriteInBounds ==
  ~grid_oob

\* C29: queryAndTopK and topKScore never read or pop the top of an empty
\* heap: a round of the extraction loop finds a pair in the heap, and the
\* positions of the result that are written are no more than the entries
\* that were offered
C29_NoEmptyHeapTop ==
  [][(/\ frame.routine \in {"queryAndTopK", "topKScore"}
      /\ frame.pc = "drain"
      /\ frame.i < frame.k
      /\ frame' # frame)
     => /\ frame.min_heap # {}
        /\ Cardinality(frame'.written) <= Cardinality(frame.slots)]_vars

\* C30: a key switch of a ciphertext of two or of three polynomials, in NTT
\* form or in coefficient form, returns without a typed exception and leaves
\* both A and B of its result in NTT form
C30_KeySwitchCompletes ==
  (/\ frame.routine \in {"keySwitch", "keySwitchSelf"}
   /\ frame.pc = "returned")
  => /\ frame.thrown = ""
     /\ getA(frame.out).is_ntt_
     /\ getB(frame.out).is_ntt_

====
